---- MODULE Spec2Model ----
(***************************************************************************)
(* Model of the medication-intake submission gateway, api/submit.js:       *)
(* the rate limiter (hashIp, checkRateLimit, rateLimitStore), the origin   *)
(* validator (isAllowedOrigin), the required-field validation              *)
(* (validateRequiredFields) and the request handler (handler).             *)
(*                                                                         *)
(* Strings are sequences of one-character strings.  JavaScript values are  *)
(* tagged records [t |-> type, v |-> payload].  A JavaScript number that   *)
(* may be NaN is a sequence: <<n>> for the number n, <<>> for NaN.         *)
(***************************************************************************)
EXTENDS Integers, Sequences, FiniteSets, TLC

VARIABLES
  CONFIG,          \* the CONFIG object, fixed when the module is loaded
  rateLimitStore,  \* the Map hashed ip -> array of timestamps
  clock,           \* the value Date.now() returns
  history,         \* the calls of checkRateLimit made so far, with their results
  origin,          \* the origin handed to isAllowedOrigin (origin validator runs)
  originResult,    \* <<>> before the call, <<result>> after it
  pending,         \* handler invocations suspended in "await resend.emails.send"
  last,            \* the invocation that has just responded, until it is discarded
  input,           \* the value handed to sanitizeObject (sanitizer runs)
  sanitized,       \* the results of the successive applications of sanitizeObject
  rendered,        \* the pairs (html, text) rendered so far (renderer runs)
  digest           \* <<>> before the call of hashIp, <<result>> after it

vars ==
  <<CONFIG, rateLimitStore, clock, history, origin, originResult, pending, last,
    input, sanitized, rendered, digest>>

(***************************************************************************)
(* Bounds of the model.                                                    *)
(***************************************************************************)
MaxTime == 3      \* largest value of the clock
MaxCalls == 4     \* largest number of recorded checkRateLimit calls
MaxLimit == 2     \* largest configured RATE_LIMIT_MAX
MaxWindow == 2    \* largest configured RATE_LIMIT_WINDOW_MS
MaxOriginLen == 2 \* longest origin handed to the origin validator
MaxEntryLen == 2  \* longest entry of ALLOWED_ORIGINS
MaxListLen == 2   \* largest number of entries of ALLOWED_ORIGINS
MaxTimeH == 1     \* largest value of the clock while requests are handled
MaxLimitH == 1    \* largest RATE_LIMIT_MAX while requests are handled
MaxWindowH == 1   \* largest RATE_LIMIT_WINDOW_MS while requests are handled
MaxDelay == 1     \* largest advance of the clock between two reads of Date.now()
MaxLeafLen == 2   \* longest string leaf handed to sanitizeObject
MaxArrayLen == 2  \* longest array handed to sanitizeObject
MaxPasses == 2    \* largest number of successive applications of sanitizeObject
MaxTimeR == 1     \* largest value of the clock while messages are rendered
MaxRenders == 2   \* largest number of renderings of one submission
MaxMeds == 2      \* largest number of medication entries of a submission
MaxIpLen == 7     \* longest address handed to hashIp
MaxInFlight == 2  \* largest number of invocations that wait for the transport

\* "Length limiting (1000 chars max per field)"
MaxFieldLength == 1000

(***************************************************************************)
(* JavaScript numbers that may be NaN.                                     *)
(***************************************************************************)
NaN == <<>>
Num(n) == <<n>>
IsNum(x) == x # NaN
Val(x) == x[1]

(***************************************************************************)
(* Characters and their UTF-16 code units (String.prototype.charCodeAt).   *)
(***************************************************************************)
CharCode(c) ==
  CASE c = "A" -> 65 [] c = "B" -> 66 [] c = "C" -> 67
    [] c = "a" -> 97 [] c = "b" -> 98 [] c = "c" -> 99
    [] c = "." -> 46 [] c = ":" -> 58 [] c = "*" -> 42
    [] c = "1" -> 49 [] c = "2" -> 50
    [] c = "u" -> 117 [] c = "n" -> 110 [] c = "k" -> 107
    [] c = "o" -> 111 [] c = "w" -> 119
    [] OTHER -> 63

(***************************************************************************)
(* 32-bit integers as two 16-bit limbs, so that the arithmetic of hashIp   *)
(* wraps around as the JavaScript operators << and & make it wrap.         *)
(***************************************************************************)
Limb == 65536

Zero32 == [hi |-> 0, lo |-> 0]

\* hash << 5
Shl5(h) ==
  LET l == h.lo * 32
  IN  [lo |-> l % Limb, hi |-> (h.hi * 32 + (l \div Limb)) % Limb]

\* a - b, modulo 2^32
Sub32(a, b) ==
  LET l == a.lo - b.lo
      borrow == IF l < 0 THEN 1 ELSE 0
  IN  [lo |-> l % Limb, hi |-> (a.hi - b.hi - borrow) % Limb]

\* a + c for a code unit c, modulo 2^32
Add32(a, c) ==
  LET l == a.lo + c
  IN  [lo |-> l % Limb, hi |-> (a.hi + (l \div Limb)) % Limb]

IsNeg32(h) == h.hi >= 32768

\* the magnitude of a negative 32-bit value
Neg32(h) == Sub32(Zero32, h)

HexDigit == <<"0", "1", "2", "3", "4", "5", "6", "7",
              "8", "9", "a", "b", "c", "d", "e", "f">>

Hex4(n) ==
  << HexDigit[(n \div 4096) + 1], HexDigit[((n \div 256) % 16) + 1],
     HexDigit[((n \div 16) % 16) + 1], HexDigit[(n % 16) + 1] >>

RECURSIVE StripZeros(_)
StripZeros(s) ==
  IF Len(s) > 1 /\ s[1] = "0" THEN StripZeros(Tail(s)) ELSE s

\* Number.prototype.toString(16) of a signed 32-bit integer
ToString16(h) ==
  IF IsNeg32(h)
  THEN <<"-">> \o StripZeros(Hex4(Neg32(h).hi) \o Hex4(Neg32(h).lo))
  ELSE StripZeros(Hex4(h.hi) \o Hex4(h.lo))

\* an iteration that leaves out the subtraction: 32 * hash + char
HashStep_Times32(hash, char) == Add32(Shl5(hash), char)

\* one iteration of the loop of hashIp
HashStep(hash, char) == Add32(Sub32(Shl5(hash), hash), char)

RECURSIVE HashLoop(_, _, _)
HashLoop(ip, i, hash) ==
  IF i > Len(ip) THEN hash
  ELSE HashLoop(ip, i + 1, HashStep(hash, CharCode(ip[i])))

\* a key that is the address itself
hashIp_Identity(ip) == ip

hashIp(ip) == ToString16(HashLoop(ip, 1, Zero32))

(***************************************************************************)
(* The rate limiter.                                                       *)
(***************************************************************************)
\* rateLimitStore.get(hashedIp) || []
StoreGet(store, key) == IF key \in DOMAIN store THEN store[key] ELSE <<>>

\* a write that leaves the written entry alone in the store
StoreSet_Alone(store, key, value) == [k \in {key} |-> value]

\* rateLimitStore.set(hashedIp, validEntries)
StoreSet(store, key, value) ==
  [k \in (DOMAIN store) \cup {key} |-> IF k = key THEN value ELSE store[k]]

\* a filter that also drops the entries of the current window
FilterWindow_DropAll(entries, windowStart) ==
  SelectSeq(entries, LAMBDA timestamp : timestamp > windowStart + CONFIG.RATE_LIMIT_WINDOW_MS)

\* entries.filter(timestamp => timestamp > windowStart)
FilterWindow(entries, windowStart) ==
  SelectSeq(entries, LAMBDA timestamp : timestamp > windowStart)

\* a limit test that never denies
LimitExceeded_Never(validEntries) == FALSE

\* an off-by-one limit test
LimitExceeded_OffByOne(validEntries) == Len(validEntries) > CONFIG.RATE_LIMIT_MAX

\* validEntries.length >= CONFIG.RATE_LIMIT_MAX
LimitExceeded(validEntries) == Len(validEntries) >= CONFIG.RATE_LIMIT_MAX

\* validEntries[0] + CONFIG.RATE_LIMIT_WINDOW_MS; validEntries[0] is undefined
\* for an empty array, and undefined + number is NaN
DeniedResetAt(validEntries) ==
  IF validEntries = <<>> THEN NaN
  ELSE Num(validEntries[1] + CONFIG.RATE_LIMIT_WINDOW_MS)

\* CONFIG.RATE_LIMIT_MAX - validEntries.length - 1, evaluated after the push
RemainingAfterPush(validEntries) ==
  CONFIG.RATE_LIMIT_MAX - Len(validEntries) - 1

\* checkRateLimit(ip) with Date.now() = now: the returned object, and the
\* store as the call leaves it
checkRateLimit(ip, now) ==
  LET hashedIp == hashIp(ip)
      windowStart == now - CONFIG.RATE_LIMIT_WINDOW_MS
      entries == StoreGet(rateLimitStore, hashedIp)
      validEntries == FilterWindow(entries, windowStart)
      pushed == Append(validEntries, now)
  IN  IF LimitExceeded(validEntries)
      THEN [allowed |-> FALSE, remaining |-> 0,
            resetAt |-> DeniedResetAt(validEntries),
            store |-> rateLimitStore]
      ELSE [allowed |-> TRUE,
            remaining |-> RemainingAfterPush(pushed),
            resetAt |-> Num(now + CONFIG.RATE_LIMIT_WINDOW_MS),
            store |-> StoreSet(rateLimitStore, hashedIp, pushed)]

(***************************************************************************)
(* JavaScript values.                                                      *)
(***************************************************************************)
Undefined == [t |-> "undefined"]
Null == [t |-> "null"]
Str(s) == [t |-> "string", v |-> s]
Number(n) == [t |-> "number", v |-> n]
Bool(b) == [t |-> "boolean", v |-> b]
Array(a) == [t |-> "array", v |-> a]
Object(f) == [t |-> "object", v |-> f]

\* The property name "__proto__", and the prototype of an object that has been
\* given one by an assignment to that name: it is kept in the payload under
\* ProtoSlot, which is no property (an object without it has Object.prototype).
ProtoKey == <<"__proto__">>
ProtoSlot == <<"[[Prototype]]">>
\* the own enumerable property names of an object, as Object.entries lists them
OwnKeys(obj) == DOMAIN obj.v \ {ProtoSlot}

\* ToBoolean(x) is false
Falsy(x) ==
  \/ x.t \in {"undefined", "null"}
  \/ x.t = "string" /\ x.v = <<>>
  \/ x.t = "number" /\ x.v = 0
  \/ x.t = "boolean" /\ ~x.v

\* a || b
Or(a, b) == IF Falsy(a) THEN b ELSE a

(***************************************************************************)
(* The origin validator.                                                   *)
(***************************************************************************)
\* allowed.includes('*')
Includes(s, c) == \E i \in DOMAIN s : s[i] = c

\* allowed.replace(/\*/g, '.*')
RECURSIVE ReplaceStar(_)
ReplaceStar(s) ==
  IF s = <<>> THEN <<>>
  ELSE (IF s[1] = "*" THEN <<".", "*">> ELSE <<s[1]>>) \o ReplaceStar(Tail(s))

\* one character against one atom of the regular expression: "." matches any
\* character, any other atom of the modelled alphabet matches itself
AtomMatches(atom, c) == atom = "." \/ atom = c

\* the regular expression re matches a prefix of s; an atom followed by "*" is
\* repeated zero or more times
RECURSIVE MatchHere(_, _)
RECURSIVE MatchStar(_, _, _)
MatchHere(re, s) ==
  IF re = <<>> THEN TRUE
  ELSE IF Len(re) >= 2 /\ re[2] = "*"
       THEN MatchStar(re[1], SubSeq(re, 3, Len(re)), s)
       ELSE /\ s # <<>>
            /\ AtomMatches(re[1], s[1])
            /\ MatchHere(Tail(re), Tail(s))
MatchStar(atom, re, s) ==
  \/ MatchHere(re, s)
  \/ /\ s # <<>>
     /\ AtomMatches(atom, s[1])
     /\ MatchStar(atom, re, Tail(s))

\* new RegExp(re).test(s): the expression is not anchored, a match may start
\* at any position of s and end before its end
RegExpTest(re, s) ==
  \E i \in 1..(Len(s) + 1) : MatchHere(re, SubSeq(s, i, Len(s)))

\* a comparison of prefixes instead of whole strings
ExactMatch_Prefix(allowed, o) ==
  Len(allowed) <= Len(o) /\ SubSeq(o, 1, Len(allowed)) = allowed

\* allowed === origin
ExactMatch(allowed, o) == allowed = o

\* the callback of CONFIG.ALLOWED_ORIGINS.some
EntryAllows(allowed, o) ==
  IF Includes(allowed, "*")
  THEN RegExpTest(ReplaceStar(allowed), o)
  ELSE ExactMatch(allowed, o)

\* a test for a missing header only
OriginMissing_UndefinedOnly(o) == o.t = "undefined"

\* !origin
OriginMissing(o) == Falsy(o)

isAllowedOrigin(o) ==
  IF OriginMissing(o) THEN FALSE
  ELSE \E i \in DOMAIN CONFIG.ALLOWED_ORIGINS :
         EntryAllows(CONFIG.ALLOWED_ORIGINS[i], o.v)

(***************************************************************************)
(* String conversion, validation and sanitization.  A property name is     *)
(* written as a string of one atom, e.g. <<"patientName">>.                 *)
(***************************************************************************)
\* the concatenation of the strings of a sequence, sep between them
RECURSIVE Join(_, _)
Join(strs, sep) ==
  IF strs = <<>> THEN <<>>
  ELSE IF Len(strs) = 1 THEN strs[1]
  ELSE strs[1] \o sep \o Join(Tail(strs), sep)

Digits == <<"0", "1", "2", "3", "4", "5", "6", "7", "8", "9">>

\* String(n) for a natural number n
RECURSIVE NumberToString(_)
NumberToString(n) ==
  IF n < 10 THEN <<Digits[n + 1]>>
  ELSE NumberToString(n \div 10) \o <<Digits[(n % 10) + 1]>>

\* String(x)
RECURSIVE ToStringJS(_)
ToStringJS(x) ==
  CASE x.t = "string" -> x.v
    [] x.t = "number" -> NumberToString(x.v)
    [] x.t = "boolean" -> IF x.v THEN <<"t", "r", "u", "e">>
                                 ELSE <<"f", "a", "l", "s", "e">>
    [] x.t = "undefined" -> <<"u", "n", "d", "e", "f", "i", "n", "e", "d">>
    [] x.t = "null" -> <<"n", "u", "l", "l">>
    [] x.t = "array" ->
         Join([i \in DOMAIN x.v |->
                 IF x.v[i].t \in {"undefined", "null"} THEN <<>>
                 ELSE ToStringJS(x.v[i])], <<",">>)
    [] x.t = "object" -> <<"[object Object]">>

WhiteSpace == {" ", "\t", "\n"}

\* String.prototype.trim
RECURSIVE Trim(_)
Trim(s) ==
  IF s = <<>> THEN s
  ELSE IF s[1] \in WhiteSpace THEN Trim(Tail(s))
  ELSE IF s[Len(s)] \in WhiteSpace THEN Trim(SubSeq(s, 1, Len(s) - 1))
  ELSE s

\* data[field] for a value data that is neither undefined nor null, and a
\* field that is none of the built-in properties of strings and arrays
RECURSIVE GetProp(_, _)
GetProp(data, field) ==
  IF data.t # "object" THEN Undefined
  ELSE IF field \in OwnKeys(data) THEN data.v[field]
  ELSE IF ProtoSlot \in DOMAIN data.v THEN GetProp(data.v[ProtoSlot], field)
  ELSE Undefined

\* reading a property of undefined or null throws a TypeError
PropThrows(data) == data.t \in {"undefined", "null"}

\* a test that lets a blank string through
FieldMissing_NoTrim(data, field) == Falsy(GetProp(data, field))

\* !data[field] || String(data[field]).trim() === ''
FieldMissing(data, field) ==
  \/ Falsy(GetProp(data, field))
  \/ Trim(ToStringJS(GetProp(data, field))) = <<>>

\* an exception: its name and message, and the properties error, statusCode and
\* response that the handler reads from it
Exception(name, message, error, statusCode) ==
  [name |-> name, message |-> message, error |-> error,
   statusCode |-> statusCode, response |-> Undefined]
TypeError(message) == Exception("TypeError", message, Undefined, Undefined)
NoError == Exception("", <<>>, Undefined, Undefined)

\* validateRequiredFields(data, requiredFields): the array it returns, or the
\* TypeError that reading data[field] throws
validateRequiredFields(data, requiredFields) ==
  IF PropThrows(data) /\ requiredFields # <<>>
  THEN [threw |-> TRUE, missing |-> <<>>,
        exception |-> TypeError(<<"Cannot read properties of ", data.t,
                                  " (reading '", requiredFields[1][1], "')">>)]
  ELSE [threw |-> FALSE,
        missing |-> SelectSeq(requiredFields, LAMBDA field : FieldMissing(data, field)),
        exception |-> NoError]

\* str.replace(/c/g, entity) for a character c: every occurrence is replaced,
\* in the two halves of the string independently
RECURSIVE ReplaceAll(_, _, _)
ReplaceAll(str, c, entity) ==
  IF str = <<>> THEN <<>>
  ELSE IF Len(str) = 1 THEN (IF str[1] = c THEN entity ELSE str)
  ELSE LET half == Len(str) \div 2
       IN  ReplaceAll(SubSeq(str, 1, half), c, entity)
             \o ReplaceAll(SubSeq(str, half + 1, Len(str)), c, entity)

\* an encoder that leaves the ampersand alone
escapeHtml_NoAmp(text) ==
  LET s2 == ReplaceAll(text, "<", <<"&", "l", "t", ";">>)
      s3 == ReplaceAll(s2, ">", <<"&", "g", "t", ";">>)
      s4 == ReplaceAll(s3, "\"", <<"&", "q", "u", "o", "t", ";">>)
      s5 == ReplaceAll(s4, "'", <<"&", "#", "x", "2", "7", ";">>)
  IN  ReplaceAll(s5, "/", <<"&", "#", "x", "2", "F", ";">>)

\* escapeHtml(text) for a string text
escapeHtml(text) ==
  LET s1 == ReplaceAll(text, "&", <<"&", "a", "m", "p", ";">>)
      s2 == ReplaceAll(s1, "<", <<"&", "l", "t", ";">>)
      s3 == ReplaceAll(s2, ">", <<"&", "g", "t", ";">>)
      s4 == ReplaceAll(s3, "\"", <<"&", "q", "u", "o", "t", ";">>)
      s5 == ReplaceAll(s4, "'", <<"&", "#", "x", "2", "7", ";">>)
  IN  ReplaceAll(s5, "/", <<"&", "#", "x", "2", "F", ";">>)

\* for (const [key, value] of Object.entries(obj)) sanitized[escapeHtml(key)] =
\* sanitizeObject(value), for the keys other than "__proto__" (escapeHtml maps
\* no two keys to one)
RECURSIVE sanitizeObject(_)
SanitizedEntries(obj) ==
  [safeKey \in {escapeHtml(key) : key \in OwnKeys(obj) \ {ProtoKey}} |->
     sanitizeObject(obj.v[CHOOSE key \in OwnKeys(obj) : escapeHtml(key) = safeKey])]

\* sanitized['__proto__'] = v runs the setter of Object.prototype: an object or
\* null becomes the prototype of sanitized, any other value is dropped, and in
\* neither case does sanitized get a property of that name
AssignsPrototype(obj) ==
  /\ ProtoKey \in OwnKeys(obj)
  /\ obj.v[ProtoKey].t \in {"object", "null"}

\* sanitizeObject(obj)
sanitizeObject(obj) ==
  CASE obj.t = "string" -> Str(escapeHtml(obj.v))
    [] obj.t = "array" -> Array([i \in DOMAIN obj.v |-> sanitizeObject(obj.v[i])])
    [] obj.t = "object" ->
         LET entries == SanitizedEntries(obj)
         IN  IF AssignsPrototype(obj)
             THEN Object([key \in DOMAIN entries \cup {ProtoSlot} |->
                            IF key = ProtoSlot THEN sanitizeObject(obj.v[ProtoKey])
                            ELSE entries[key]])
             ELSE Object(entries)
    [] OTHER -> obj

(***************************************************************************)
(* The request handler.                                                    *)
(***************************************************************************)
SECURITY_HEADERS ==
  {"Content-Type", "X-Content-Type-Options", "X-Frame-Options",
   "X-XSS-Protection", "Referrer-Policy", "Strict-Transport-Security",
   "Content-Security-Policy"}

PatientName == <<"patientName">>
DateOfBirth == <<"dateOfBirth">>
HomePharmacy == <<"homePharmacy">>
Allergies == <<"allergies">>
Medications == <<"medications">>

\* const requiredFields = ['patientName', 'dateOfBirth', 'homePharmacy', 'allergies']
RequiredFields == <<PatientName, DateOfBirth, HomePharmacy, Allergies>>

AppJson == <<"a", "p", "p", "l", "i", "c", "a", "t", "i", "o", "n", "/",
             "j", "s", "o", "n">>

Unknown == <<"u", "n", "k", "n", "o", "w", "n">>

\* req.headers['x-forwarded-for'] || req.socket?.remoteAddress || 'unknown'
ClientIp(req) ==
  IF ~Falsy(req.xff) THEN req.xff.v
  ELSE IF ~Falsy(req.remote) THEN req.remote.v
  ELSE Unknown

\* s.includes(sub)
IncludesSeq(s, sub) ==
  \E i \in 1..(Len(s) - Len(sub) + 1) : SubSeq(s, i, i + Len(sub) - 1) = sub

\* req.headers['content-type']?.includes('application/json')
IsJsonContentType(contentType) ==
  contentType.t = "string" /\ IncludesSeq(contentType.v, AppJson)

\* Math.ceil(a / b) for integers a and b > 0
CeilDiv(a, b) == -((-a) \div b)

\* a hint computed from the time of the rate check instead of a second reading
\* of the clock
RetryAfter_AtCheck(resetAt, now, later) ==
  IF IsNum(resetAt) THEN Num(CeilDiv(Val(resetAt) - now, 1000)) ELSE NaN

\* Math.ceil((rateLimit.resetAt - Date.now()) / 1000), Date.now() = later
RetryAfter(resetAt, now, later) ==
  IF IsNum(resetAt) THEN Num(CeilDiv(Val(resetAt) - later, 1000)) ELSE NaN

NoRateLimit == [called |-> FALSE, allowed |-> FALSE, remaining |-> 0, resetAt |-> NaN]
RateLimitOf(r) ==
  [called |-> TRUE, allowed |-> r.allowed, remaining |-> r.remaining,
   resetAt |-> r.resetAt]

\* generateEmailHtml(data) and generateEmailText(data) throw a TypeError when
\* data.medications is a non-empty string or an object with a positive length
\* (no map method), or an array with a null or undefined entry (med.name)
GenerateThrows(data) ==
  LET meds == GetProp(data, Medications)
  IN  \/ meds.t = "string" /\ meds.v # <<>>
      \/ /\ meds.t = "array"
         /\ \E i \in DOMAIN meds.v : meds.v[i].t \in {"undefined", "null"}
      \/ /\ meds.t = "object"
         /\ GetProp(meds, <<"length">>).t = "number"
         /\ GetProp(meds, <<"length">>).v > 0

\* sanitizedData.patientName ? sanitizedData.patientName.substring(0, 10) : 'empty'
\* throws a TypeError when patientName is truthy and not a string
PreviewThrows(data) ==
  LET name == GetProp(data, PatientName)
  IN  ~Falsy(name) /\ name.t # "string"

\* `Medication Intake - ${sanitizedData.patientName || 'Unknown'}`
Subject(data) ==
  LET name == GetProp(data, PatientName)
  IN  <<"Medication Intake - ">> \o
        (IF Falsy(name) THEN <<"Unknown">> ELSE ToStringJS(name))

\* new Date().toISOString() for a clock below one second
ToISOString(now) ==
  <<"1970-01-01T00:00:00.">>
    \o <<Digits[((now \div 100) % 10) + 1], Digits[((now \div 10) % 10) + 1],
         Digits[(now % 10) + 1]>>
    \o <<"Z">>

\* `${x || placeholder}`
OrElse(x, placeholder) == IF Falsy(x) THEN <<placeholder>> ELSE ToStringJS(x)

\* data.medications.length for a truthy data.medications
MedicationsLength(meds) ==
  CASE meds.t \in {"array", "string"} -> Number(Len(meds.v))
    [] meds.t = "object" -> GetProp(meds, <<"length">>)
    [] OTHER -> Undefined

\* data.medications && data.medications.length > 0, for an array, a primitive
\* or an object without a length
HasMedications(data) ==
  LET meds == GetProp(data, Medications)
  IN  ~Falsy(meds) /\ meds.t = "array" /\ Len(meds.v) > 0

\* `${data.medications ? data.medications.length : 0}`
MedicationsCount(data) ==
  LET meds == GetProp(data, Medications)
  IN  ToStringJS(IF Falsy(meds) THEN Number(0) ELSE MedicationsLength(meds))

\* one <div class="field">: its label and its value
HtmlField(label, content) ==
  <<"<div class=\"field\"><div class=\"field-label\">", label,
    "</div><div class=\"field-value\">">> \o content \o <<"</div></div>">>

\* a block labelled with the index of map, which counts from 0
MedicationHtml_ZeroBased(med, i) ==
  <<"<div class=\"field\"><div class=\"field-label\">Medication ">>
    \o NumberToString(i - 1)
    \o <<"</div><div class=\"field-value\"><strong>">>
    \o OrElse(GetProp(med, <<"name">>), "N/A")
    \o <<"</strong><br>Dosage: ">>
    \o OrElse(GetProp(med, <<"dosage">>), "N/A")
    \o <<"<br>Frequency: ">>
    \o OrElse(GetProp(med, <<"frequency">>), "N/A")
    \o <<"</div></div>">>

\* the block of one medication, i counted from 1
MedicationHtml(med, i) ==
  <<"<div class=\"field\"><div class=\"field-label\">Medication ">>
    \o NumberToString(i)
    \o <<"</div><div class=\"field-value\"><strong>">>
    \o OrElse(GetProp(med, <<"name">>), "N/A")
    \o <<"</strong><br>Dosage: ">>
    \o OrElse(GetProp(med, <<"dosage">>), "N/A")
    \o <<"<br>Frequency: ">>
    \o OrElse(GetProp(med, <<"frequency">>), "N/A")
    \o <<"</div></div>">>

MedicationsListHtml(data) ==
  IF HasMedications(data)
  THEN LET meds == GetProp(data, Medications).v
       IN  Join([i \in DOMAIN meds |-> MedicationHtml(meds[i], i)], <<>>)
  ELSE HtmlField("Medications", <<"No medications reported">>)

\* generateEmailHtml(data) with new Date() = now, when it does not throw; the
\* fixed markup between the interpolated values is kept in chunks
generateEmailHtml(data, now) ==
  <<"<!DOCTYPE html><html><head>...</head><body><div class=\"header\">...</div>",
    "<div class=\"content\"><div class=\"timestamp\"><strong>Submission Time:</strong> ">>
    \o ToISOString(now)
    \o <<"</div><h2 class=\"section-title\">Patient Information</h2>">>
    \o HtmlField("Patient ID", OrElse(GetProp(data, <<"patientId">>), "N/A"))
    \o HtmlField("Patient Name", OrElse(GetProp(data, PatientName), "N/A"))
    \o HtmlField("Date of Birth", OrElse(GetProp(data, DateOfBirth), "N/A"))
    \o HtmlField("Patient Phone", OrElse(GetProp(data, <<"patientPhone">>), "N/A"))
    \o <<"<h2 class=\"section-title\">Home Pharmacy</h2>">>
    \o HtmlField("Pharmacy Name", OrElse(GetProp(data, HomePharmacy), "N/A"))
    \o HtmlField("Pharmacy Address",
                 OrElse(GetProp(data, <<"pharmacyAddress">>), "N/A"))
    \o HtmlField("Pharmacy Phone", OrElse(GetProp(data, <<"pharmacyPhone">>), "N/A"))
    \o HtmlField("Pharmacy Fax", OrElse(GetProp(data, <<"pharmacyFax">>), "N/A"))
    \o <<"<h2 class=\"section-title\">Home Medications (">>
    \o MedicationsCount(data)
    \o <<")</h2>">>
    \o MedicationsListHtml(data)
    \o <<"<h2 class=\"section-title\">Additional Information</h2>">>
    \o HtmlField("Known Allergies", OrElse(GetProp(data, Allergies), "None reported"))
    \o HtmlField("Additional Notes",
                 OrElse(GetProp(data, <<"additionalNotes">>), "None"))
    \o <<"</div><div class=\"footer\">...</div></body></html>">>

\* the line of one medication, i counted from 1
MedicationText(med, i) ==
  NumberToString(i) \o <<". ">>
    \o OrElse(GetProp(med, <<"name">>), "N/A")
    \o <<" - Dosage: ">>
    \o OrElse(GetProp(med, <<"dosage">>), "N/A")
    \o <<" - Frequency: ">>
    \o OrElse(GetProp(med, <<"frequency">>), "N/A")

MedicationsListText(data) ==
  IF HasMedications(data)
  THEN LET meds == GetProp(data, Medications).v
       IN  Join([i \in DOMAIN meds |-> MedicationText(meds[i], i)], <<"\n">>)
  ELSE <<"No medications reported">>

\* one line of the plain text: its label and its value
TextField(label, content) == <<label, ": ">> \o content \o <<"\n">>

\* generateEmailText(data) with new Date() = now, when it does not throw
generateEmailText(data, now) ==
  <<"HOME MEDICATION INTAKE FORM\nSelect Medical - SRH Frisco Pharmacy\n...\n">>
    \o TextField("Submission Time", ToISOString(now))
    \o <<"\nPATIENT INFORMATION\n-------------------\n">>
    \o TextField("Patient ID", OrElse(GetProp(data, <<"patientId">>), "N/A"))
    \o TextField("Patient Name", OrElse(GetProp(data, PatientName), "N/A"))
    \o TextField("Date of Birth", OrElse(GetProp(data, DateOfBirth), "N/A"))
    \o TextField("Patient Phone", OrElse(GetProp(data, <<"patientPhone">>), "N/A"))
    \o <<"\nHOME PHARMACY\n-------------\n">>
    \o TextField("Pharmacy Name", OrElse(GetProp(data, HomePharmacy), "N/A"))
    \o TextField("Pharmacy Address",
                 OrElse(GetProp(data, <<"pharmacyAddress">>), "N/A"))
    \o TextField("Pharmacy Phone", OrElse(GetProp(data, <<"pharmacyPhone">>), "N/A"))
    \o TextField("Pharmacy Fax", OrElse(GetProp(data, <<"pharmacyFax">>), "N/A"))
    \o <<"\nHOME MEDICATIONS (">>
    \o MedicationsCount(data)
    \o <<")\n----------------\n">>
    \o MedicationsListText(data)
    \o <<"\n\nADDITIONAL INFORMATION\n----------------------\n">>
    \o TextField("Known Allergies", OrElse(GetProp(data, Allergies), "None reported"))
    \o TextField("Additional Notes",
                 OrElse(GetProp(data, <<"additionalNotes">>), "None"))
    \o <<"\n---\nThis is an automated message ...">>

\* the headers of a response
Headers(names, allowOrigin) == [names |-> names, allowOrigin |-> allowOrigin]

PreflightHeaders(o) ==
  Headers(SECURITY_HEADERS \cup
            {"Access-Control-Allow-Origin", "Access-Control-Allow-Methods",
             "Access-Control-Allow-Headers", "Access-Control-Max-Age"}, o)

PostHeaders(o) == Headers(SECURITY_HEADERS \cup {"Access-Control-Allow-Origin"}, o)

PlainHeaders == Headers(SECURITY_HEADERS, Undefined)

\* the response bodies
NoBody == [ended |-> TRUE]
Failure(message) == [success |-> FALSE, error |-> <<message>>]
RateLimited(retryAfter) ==
  [success |-> FALSE, error |-> <<"Too many requests. Please try again later.">>,
   retryAfter |-> retryAfter]
MissingFields(missingFields) ==
  [success |-> FALSE,
   error |-> <<"Missing required fields: ">> \o Join(missingFields, <<", ">>)]
\* the body the catch block sends
Caught(error, requestId) ==
  [success |-> FALSE,
   error |-> IF error.message # <<>> THEN error.message
             ELSE <<"Failed to process submission. Please try again.">>,
   errorDetails |-> Or(error.error, Null),
   requestId |-> requestId]
Success(requestId, remaining) ==
  [success |-> TRUE, message |-> <<"Form submitted successfully">>,
   requestId |-> requestId, remainingSubmissions |-> remaining]

\* error.stack
Stack(error) == <<error.name, ": ">> \o error.message \o <<"\n    at ...">>

\* str.substring(0, end)
Substring(str, end) == SubSeq(str, 1, IF Len(str) < end THEN Len(str) ELSE end)

EMAIL_RECIPIENT == <<"heyitsmeastra@gmail.com">>

\* req.headers['user-agent'] || 'unknown'
UserAgent(req) == IF Falsy(req.userAgent) THEN Unknown ELSE req.userAgent.v

\* the objects handed to console.log(JSON.stringify(...))
LogCorsViolation(requestId, now, o, clientIp) ==
  [level |-> "WARN", event |-> "CORS_VIOLATION", requestId |-> requestId,
   timestamp |-> ToISOString(now), origin |-> o, ipHash |-> hashIp(clientIp)]
LogRateLimitExceeded(requestId, now, clientIp) ==
  [level |-> "WARN", event |-> "RATE_LIMIT_EXCEEDED", requestId |-> requestId,
   timestamp |-> ToISOString(now), ipHash |-> hashIp(clientIp)]
LogConfigMissingApiKey(requestId, now) ==
  [level |-> "ERROR", event |-> "CONFIG_MISSING_API_KEY", requestId |-> requestId,
   timestamp |-> ToISOString(now)]
\* htmlLength and textLength count the chunks of fixed text as one each
LogSendingEmail(requestId, sanitizedData, htmlContent, textContent) ==
  LET patientName == GetProp(sanitizedData, PatientName)
  IN  [level |-> "DEBUG", event |-> "SENDING_EMAIL", requestId |-> requestId,
       from |-> <<"onboarding@resend.dev">>, to |-> EMAIL_RECIPIENT,
       subjectPreview |->
         <<"Medication Intake - ">> \o
           (IF Falsy(patientName) THEN <<"empty">>
            ELSE Substring(patientName.v, 10)),
       htmlLength |-> Len(htmlContent), textLength |-> Len(textContent)]
LogResendApiError(requestId, sendError) ==
  [level |-> "ERROR", event |-> "RESEND_API_ERROR", requestId |-> requestId,
   error |-> sendError.message, errorName |-> sendError.name,
   errorStatus |-> sendError.statusCode,
   errorResponse |-> Or(sendError.response, Null)]
LogFormSubmitted(requestId, now, clientIp, userAgent, emailResult, rateLimit) ==
  [level |-> "INFO", event |-> "FORM_SUBMITTED", requestId |-> requestId,
   timestamp |-> ToISOString(now), ipHash |-> hashIp(clientIp),
   userAgent |-> Substring(userAgent, 50), emailId |-> emailResult.id,
   remaining |-> rateLimit.remaining]
LogSubmissionError(requestId, now, error, clientIp) ==
  [level |-> "ERROR", event |-> "SUBMISSION_ERROR", requestId |-> requestId,
   timestamp |-> ToISOString(now), error |-> error.message,
   errorName |-> error.name, errorStack |-> Stack(error),
   errorDetails |-> Or(error.error, Or(error.statusCode, Null)),
   ipHash |-> hashIp(clientIp)]

\* the argument of resend.emails.send
Message(subject, html, text) ==
  [from |-> <<"onboarding@resend.dev">>, to |-> EMAIL_RECIPIENT,
   subject |-> subject, html |-> html, text |-> text]
NoMessage == Message(<<>>, <<>>, <<>>)

\* let emailResult; before the transport has resolved
NoEmailResult == [id |-> Undefined]
\* no res.json(...) or res.end() so far
NoJson == [sent |-> FALSE]

\* an invocation of handler: its request, its requestId, the response it has
\* sent (status 0: none so far), the number of responses sent, the headers set,
\* the number of calls of the mail transport with the message handed over, the
\* result of its rate check, what the transport resolved with, and its log
\* records
Outcome(req, requestId, status, json, headers, sends, rateLimit) ==
  [req |-> req, requestId |-> requestId, status |-> status, json |-> json,
   headers |-> headers, sends |-> sends, rateLimit |-> rateLimit,
   responses |-> 0, logs |-> <<>>, message |-> NoMessage,
   emailResult |-> NoEmailResult]

\* res.status(status).json(json), or res.status(status).end()
Respond(inv, status, json) ==
  [inv EXCEPT !.status = status, !.json = json, !.responses = @ + 1]

\* a body handed to the renderer as it arrived
SanitizedData_Raw(body) == body

\* const sanitizedData = sanitizeObject(body)
SanitizedData(body) == sanitizeObject(body)

\* a preflight that sets the CORS headers for every origin
PreflightAllowed_Always(req) == TRUE

\* if (isAllowedOrigin(origin)) in the OPTIONS branch
PreflightAllowed(req) == isAllowedOrigin(req.origin)

\* a check that only turns away requests without an origin
OriginDenied_MissingOnly(req) == Falsy(req.origin)

\* an origin check that gives way to the rate limiter: a client whose quota is
\* spent is not turned away for its origin
OriginDenied_AfterQuota(req) ==
  /\ ~isAllowedOrigin(req.origin)
  /\ ~LimitExceeded(FilterWindow(StoreGet(rateLimitStore, hashIp(ClientIp(req))),
                                 clock - CONFIG.RATE_LIMIT_WINDOW_MS))

\* if (!isAllowedOrigin(origin)) in the POST branch
OriginDenied(req) == ~isAllowedOrigin(req.origin)

\* a preflight that turns a disallowed origin away with the denial of a POST
Preflight_OriginChecked(req, requestId) ==
  IF PreflightAllowed(req)
  THEN Respond(Outcome(req, requestId, 0, NoJson, PreflightHeaders(req.origin),
                       0, NoRateLimit), 204, NoBody)
  ELSE Respond(Outcome(req, requestId, 0, NoJson, PlainHeaders, 0, NoRateLimit),
               403, Failure("Access denied from this origin"))

\* the branch if (req.method === 'OPTIONS'): the allow-headers for an allowed
\* origin, then res.status(204).end()
Preflight(req, requestId) ==
  Respond(Outcome(req, requestId, 0, NoJson,
                  IF PreflightAllowed(req) THEN PreflightHeaders(req.origin)
                  ELSE PlainHeaders,
                  0, NoRateLimit),
          204, NoBody)

\* a key check that never finds the key missing
ApiKeyMissing_Never == FALSE

\* if (!CONFIG.RESEND_API_KEY)
ApiKeyMissing == ~CONFIG.RESEND_API_KEY

\* handler(req, res) from its entry to its response or to the await; now is the
\* reading of Date.now() in checkRateLimit, later the one in the 429 branch
HandlerSync(req, requestId, now, later) ==
  LET clientIp == ClientIp(req)
      start(headers, rateLimit, logs) ==
        [Outcome(req, requestId, 0, NoJson, headers, 0, rateLimit)
           EXCEPT !.logs = logs]
      out(status, json, headers, rateLimit, store, logs) ==
        [outcome |-> Respond(start(headers, rateLimit, logs), status, json),
         store |-> store, await |-> FALSE]
      caught(error, headers, rateLimit, store, logs) ==
        out(500, Caught(error, requestId), headers, rateLimit, store,
            Append(logs, LogSubmissionError(requestId, now, error, clientIp)))
  IN
  IF req.method = "OPTIONS"
  THEN [outcome |-> Preflight(req, requestId), store |-> rateLimitStore,
        await |-> FALSE]
  ELSE IF req.method # "POST"
  THEN out(405, Failure("Method not allowed"), PlainHeaders,
           NoRateLimit, rateLimitStore, <<>>)
  ELSE IF OriginDenied(req)
  THEN out(403, Failure("Access denied from this origin"), PlainHeaders,
           NoRateLimit, rateLimitStore,
           <<LogCorsViolation(requestId, now, req.origin, clientIp)>>)
  ELSE
    LET r == checkRateLimit(clientIp, now)
        rateLimit == RateLimitOf(r)
        headers == PostHeaders(req.origin)
        validation == validateRequiredFields(req.body, RequiredFields)
        sanitizedData == SanitizedData(req.body)
        htmlContent == generateEmailHtml(sanitizedData, now)
        textContent == generateEmailText(sanitizedData, now)
    IN
    IF ~r.allowed
    THEN out(429, RateLimited(RetryAfter(r.resetAt, now, later)), headers,
             rateLimit, r.store,
             <<LogRateLimitExceeded(requestId, now, clientIp)>>)
    ELSE IF ~IsJsonContentType(req.contentType)
    THEN out(400, Failure("Invalid content type. Expected application/json"),
             headers, rateLimit, r.store, <<>>)
    ELSE IF validation.threw
    THEN caught(validation.exception, headers, rateLimit, r.store, <<>>)
    ELSE IF validation.missing # <<>>
    THEN out(400, MissingFields(validation.missing), headers,
             rateLimit, r.store, <<>>)
    ELSE IF ApiKeyMissing
    THEN out(500, Failure("Server configuration error"), headers,
             rateLimit, r.store, <<LogConfigMissingApiKey(requestId, now)>>)
    ELSE IF GenerateThrows(sanitizedData)
    THEN caught(TypeError(<<"data.medications.map is not a function",
                            " or cannot read properties of null">>),
                headers, rateLimit, r.store, <<>>)
    ELSE IF PreviewThrows(sanitizedData)
    THEN caught(TypeError(<<"sanitizedData.patientName.substring",
                            " is not a function">>),
                headers, rateLimit, r.store, <<>>)
    ELSE [outcome |->
            [start(headers, rateLimit,
                   <<LogSendingEmail(requestId, sanitizedData, htmlContent,
                                     textContent)>>)
               EXCEPT !.message = Message(Subject(sanitizedData), htmlContent,
                                          textContent)],
          store |-> r.store, await |-> TRUE]

(***************************************************************************)
(* Inputs.                                                                 *)
(***************************************************************************)
IpAa == <<"A", "a">>
IpBB == <<"B", "B">>
IpC == <<"C">>
Ips == {IpAa, IpBB, IpC}

ConfigSet ==
  [RATE_LIMIT_MAX : 0..MaxLimit,
   RATE_LIMIT_WINDOW_MS : 1..MaxWindow,
   ALLOWED_ORIGINS : {<<>>},
   RESEND_API_KEY : {TRUE}]

\* all strings over the alphabet of at most n characters
RECURSIVE StringsUpTo(_, _)
StringsUpTo(alphabet, n) ==
  IF n = 0 THEN {<<>>}
  ELSE LET shorter == StringsUpTo(alphabet, n - 1)
       IN  shorter \cup {Append(s, c) : s \in shorter, c \in alphabet}

\* all lists of at most n elements of the set
RECURSIVE ListsUpTo(_, _)
ListsUpTo(elements, n) ==
  IF n = 0 THEN {<<>>}
  ELSE LET shorter == ListsUpTo(elements, n - 1)
       IN  shorter \cup {Append(l, e) : l \in shorter, e \in elements}

\* the entries ALLOWED_ORIGINS may hold: exact strings (the empty string among
\* them, as "a,,b".split(',') produces it) and strings with wildcards
EntryChars == {"a", ".", "*"}
OriginEntries == StringsUpTo(EntryChars, MaxEntryLen)
AllowLists == ListsUpTo(OriginEntries, MaxListLen)

\* the values of the Origin header: missing, or a string
OriginChars == {"a", "b", "."}
OriginValues ==
  {Undefined} \cup {Str(s) : s \in StringsUpTo(OriginChars, MaxOriginLen)}

NoOrigin == Undefined
NoLast == [status |-> 0]
NoInput == Undefined

(***************************************************************************)
(* The rate limiter on its own: calls of checkRateLimit at the times of a  *)
(* non-decreasing clock.                                                   *)
(***************************************************************************)
InitRate ==
  /\ CONFIG \in ConfigSet
  /\ rateLimitStore = <<>>
  /\ clock = 0
  /\ history = <<>>
  /\ origin = NoOrigin
  /\ originResult = <<>>
  /\ pending = {}
  /\ last = NoLast
  /\ input = NoInput
  /\ sanitized = <<>>
  /\ rendered = <<>>
  /\ digest = <<>>

Tick ==
  /\ clock < MaxTime
  /\ clock' = clock + 1
  /\ UNCHANGED <<CONFIG, rateLimitStore, history, origin, originResult, pending, last, input, sanitized, rendered, digest>>

\* the record of one call: its arguments, the entry it found, and its result
CallRecord(ip, now, r) ==
  [ip |-> ip, now |-> now, before |-> StoreGet(rateLimitStore, hashIp(ip)),
   allowed |-> r.allowed, remaining |-> r.remaining, resetAt |-> r.resetAt]

RateCheck(ip) ==
  /\ Len(history) < MaxCalls
  /\ LET r == checkRateLimit(ip, clock)
     IN  /\ rateLimitStore' = r.store
         /\ history' = Append(history, CallRecord(ip, clock, r))
  /\ UNCHANGED <<CONFIG, clock, origin, originResult, pending, last, input, sanitized, rendered, digest>>

NextRate == Tick \/ \E ip \in Ips : RateCheck(ip)

SpecRate == InitRate /\ [][NextRate]_vars

(***************************************************************************)
(* The origin validator on its own: isAllowedOrigin applied to an origin   *)
(* under a configured allow-list.                                          *)
(***************************************************************************)
InitOrigin ==
  /\ CONFIG \in [RATE_LIMIT_MAX : {MaxLimit},
                 RATE_LIMIT_WINDOW_MS : {MaxWindow},
                 ALLOWED_ORIGINS : AllowLists,
                 RESEND_API_KEY : {TRUE}]
  /\ rateLimitStore = <<>>
  /\ clock = 0
  /\ history = <<>>
  /\ origin \in OriginValues
  /\ originResult = <<>>
  /\ pending = {}
  /\ last = NoLast
  /\ input = NoInput
  /\ sanitized = <<>>
  /\ rendered = <<>>
  /\ digest = <<>>

OriginCheck ==
  /\ originResult = <<>>
  /\ originResult' = <<isAllowedOrigin(origin)>>
  /\ UNCHANGED <<CONFIG, rateLimitStore, clock, history, origin, pending, last, input, sanitized, rendered, digest>>

NextOrigin == OriginCheck

SpecOrigin == InitOrigin /\ [][NextOrigin]_vars

(***************************************************************************)
(* The sanitizer on its own: sanitizeObject applied to a value, and again  *)
(* to its own result.                                                      *)
(***************************************************************************)
SanitizeChars == {"a", "&", "<"}
\* the primitives: strings, a number, a boolean, null and undefined
Leaves ==
  {Str(str) : str \in StringsUpTo(SanitizeChars, MaxLeafLen)}
    \cup {Number(5), Bool(TRUE), Null, Undefined}
\* property names: a plain one, one with a special character, one that is the
\* encoding of another, and "__proto__" (JSON.parse makes it an own property)
SanitizeKeys == {<<"k">>, <<"<">>, <<"&", "l", "t", ";">>, ProtoKey}
PropertyValues == {Str(<<"a">>), Str(<<"&">>), Number(5), Null}
FlatArrays ==
  {Array(a) : a \in ListsUpTo(PropertyValues \cup {Str(<<"<">>)}, MaxArrayLen)}
FlatObjects ==
  {Object(f) : f \in UNION {[keys -> PropertyValues] : keys \in SUBSET SanitizeKeys}}
NestedValues ==
  {Array(<<x, y>>) : x \in FlatObjects, y \in {Str(<<"<">>)}}
    \cup {Object([key \in {name} |-> x]) :
            name \in {<<"k">>, ProtoKey}, x \in FlatArrays \cup FlatObjects}
SanitizeInputs == Leaves \cup FlatArrays \cup FlatObjects \cup NestedValues

InitSanitize ==
  /\ CONFIG \in [RATE_LIMIT_MAX : {MaxLimit},
                 RATE_LIMIT_WINDOW_MS : {MaxWindow},
                 ALLOWED_ORIGINS : {<<>>},
                 RESEND_API_KEY : {TRUE}]
  /\ rateLimitStore = <<>>
  /\ clock = 0
  /\ history = <<>>
  /\ origin = NoOrigin
  /\ originResult = <<>>
  /\ pending = {}
  /\ last = NoLast
  /\ input \in SanitizeInputs
  /\ sanitized = <<>>
  /\ rendered = <<>>
  /\ digest = <<>>

\* sanitizeObject applied to the input, then to the result of the pass before
Sanitize ==
  /\ Len(sanitized) < MaxPasses
  /\ sanitized' =
       Append(sanitized,
              sanitizeObject(IF sanitized = <<>> THEN input
                             ELSE sanitized[Len(sanitized)]))
  /\ UNCHANGED <<CONFIG, rateLimitStore, clock, history, origin, originResult,
                 pending, last, input, rendered, digest>>

NextSanitize == Sanitize

SpecSanitize == InitSanitize /\ [][NextSanitize]_vars

(***************************************************************************)
(* The requests, and the handler one invocation at a time: an invocation   *)
(* runs without interruption to its response or to the await of the mail   *)
(* transport, and resumes when the transport resolves or rejects.  Once it *)
(* has responded, the invocation (request, response) is discarded.         *)
(***************************************************************************)
\* the object with the four required fields
Form(patientName, dateOfBirth, homePharmacy, allergies) ==
  Object([k \in {PatientName, DateOfBirth, HomePharmacy, Allergies} |->
            CASE k = PatientName -> patientName
              [] k = DateOfBirth -> dateOfBirth
              [] k = HomePharmacy -> homePharmacy
              [] k = Allergies -> allergies])

Text == Str(<<"a">>)

\* obj with the property name set to x
WithField(obj, name, x) ==
  Object([k \in DOMAIN obj.v \cup {name} |-> IF k = name THEN x ELSE obj.v[k]])

\* a string with the six characters that escapeHtml encodes
Markup == Str(<<"<", "s", ">", "&", "\"", "'", "/">>)

Bodies ==
  { Undefined, Null, Text,
    Object([k \in {PatientName} |-> Text]),
    Form(Text, Text, Text, Text),
    Form(Text, Str(<<>>), Text, Str(<<" ">>)),
    Form(Number(5), Text, Text, Text),
    WithField(Form(Markup, Text, Text, Text), Medications,
              Array(<<Object([k \in {<<"name">>, <<"dosage">>} |->
                                IF k = <<"name">> THEN Markup ELSE Text])>>)),
    WithField(Form(Text, Text, Text, Text), Medications, Text) }

Methods == {"OPTIONS", "POST", "GET"}
HandlerOrigins == {Undefined, Str(<<>>), Str(<<"a">>), Str(<<"b">>)}
ContentTypes == {Undefined, Str(AppJson), Str(<<"t", "e", "x", "t">>)}
\* the x-forwarded-for header and the remote address of the socket
LongUserAgent == [i \in 1..51 |-> "m"]
\* the x-forwarded-for header, the remote address of the socket and the
\* user-agent header
Addresses ==
  { [xff |-> Str(IpAa), remote |-> Str(IpC), userAgent |-> Str(LongUserAgent)],
    [xff |-> Undefined, remote |-> Undefined, userAgent |-> Undefined] }

Request(m, o, a, c, b) ==
  [method |-> m, origin |-> o, xff |-> a.xff, remote |-> a.remote,
   userAgent |-> a.userAgent, contentType |-> c, body |-> b]

\* a POST with any content type and body; a preflight and a GET, which carry
\* no body and no content type (handler reads neither of them for these)
Requests ==
  { Request("POST", o, a, c, b) :
      o \in HandlerOrigins, a \in Addresses, c \in ContentTypes, b \in Bodies }
    \cup { Request(m, o, a, Undefined, Undefined) :
             m \in Methods \ {"POST"}, o \in HandlerOrigins, a \in Addresses }

HandlerAllowLists == { << <<"a">> >>, << <<"*">> >> }

HandlerConfigs ==
  [RATE_LIMIT_MAX : 0..MaxLimitH,
   RATE_LIMIT_WINDOW_MS : 1..MaxWindowH,
   ALLOWED_ORIGINS : HandlerAllowLists,
   RESEND_API_KEY : BOOLEAN]

\* what resend.emails.send resolves with, and the errors it rejects with
EmailResults == { [id |-> Str(<<"e", "1">>)] }
SendErrors ==
  { Exception("Error", <<"Unable to reach the mail service">>, Undefined,
              Undefined),
    Exception("Error", <<>>, Str(<<"e">>), Number(422)) }

\* `req_${Date.now()}_${Math.random().toString(36).substr(2, 9)}`
RequestId(now) == [now |-> now, random |-> "k3j9x2m1q"]

Init ==
  /\ CONFIG \in HandlerConfigs
  /\ rateLimitStore = <<>>
  /\ clock = 0
  /\ history = <<>>
  /\ origin = NoOrigin
  /\ originResult = <<>>
  /\ pending = {}
  /\ last = NoLast
  /\ input = NoInput
  /\ sanitized = <<>>
  /\ rendered = <<>>
  /\ digest = <<>>

\* time passes; a tick while a finished invocation waits to be discarded is
\* the same as one right after the discard, and is taken then
TickH ==
  /\ last = NoLast
  /\ clock < MaxTimeH
  /\ clock' = clock + 1
  /\ UNCHANGED <<CONFIG, rateLimitStore, history, origin, originResult, pending, last, input, sanitized, rendered, digest>>

\* a handler that does not await the transport: it calls send and reports
\* success at once
Receive_DoesNotAwait(req, later) ==
  /\ pending = {}
  /\ last = NoLast
  /\ later <= MaxTimeH
  /\ later # clock => req.method = "POST"
  /\ LET h == HandlerSync(req, RequestId(clock), clock, later)
         sent == [h.outcome EXCEPT !.sends = 1]
     IN  /\ later # clock => h.outcome.status = 429
         /\ rateLimitStore' = h.store
         /\ clock' = later
         /\ pending' = {}
         /\ last' = IF h.await
                    THEN Respond(sent, 200,
                                 Success(sent.requestId, sent.rateLimit.remaining))
                    ELSE h.outcome
  /\ UNCHANGED <<CONFIG, history, origin, originResult, input, sanitized, rendered, digest>>

\* a request arrives and handler runs to its response or to the await; only
\* the 429 branch reads the clock again, at later
Receive(req, later) ==
  /\ pending = {}
  /\ last = NoLast
  /\ later <= MaxTimeH
  /\ later # clock => req.method = "POST"
  /\ LET h == HandlerSync(req, RequestId(clock), clock, later)
         sent == [h.outcome EXCEPT !.sends = 1]
     IN  /\ later # clock => h.outcome.status = 429
         /\ rateLimitStore' = h.store
         /\ clock' = later
         /\ pending' = IF h.await THEN {sent} ELSE {}
         /\ last' = IF h.await THEN NoLast ELSE h.outcome
  /\ UNCHANGED <<CONFIG, history, origin, originResult, input, sanitized, rendered, digest>>

\* the await returns: the success response
TransportResolve(inv, emailResult) ==
  /\ inv \in pending
  /\ pending' = pending \ {inv}
  /\ last' =
       Respond([inv EXCEPT
                  !.emailResult = emailResult,
                  !.logs = Append(@, LogFormSubmitted(inv.requestId, clock,
                                                      ClientIp(inv.req),
                                                      UserAgent(inv.req),
                                                      emailResult, inv.rateLimit))],
               200, Success(inv.requestId, inv.rateLimit.remaining))
  /\ UNCHANGED <<CONFIG, rateLimitStore, clock, history, origin, originResult, input, sanitized, rendered, digest>>

\* an inner catch that answers before it rethrows
TransportReject_RespondsTwice(inv, sendError) ==
  /\ inv \in pending
  /\ pending' = pending \ {inv}
  /\ last' =
       Respond(Respond(inv, 500, Failure("Failed to send")),
               500, Caught(sendError, inv.requestId))
  /\ UNCHANGED <<CONFIG, rateLimitStore, clock, history, origin, originResult, input, sanitized, rendered, digest>>

\* a catch that calls the transport a second time before it gives up
TransportReject_Retries(inv, sendError) ==
  /\ inv \in pending
  /\ IF inv.sends < 2
     THEN /\ pending' = (pending \ {inv}) \cup {[inv EXCEPT !.sends = @ + 1]}
          /\ last' = last
     ELSE /\ pending' = pending \ {inv}
          /\ last' = Respond(inv, 500, Caught(sendError, inv.requestId))
  /\ UNCHANGED <<CONFIG, rateLimitStore, clock, history, origin, originResult, input, sanitized, rendered, digest>>

\* a catch that gives the slot of the failed submission back
TransportReject_Refunds(inv, sendError) ==
  /\ inv \in pending
  /\ pending' = pending \ {inv}
  /\ last' = Respond(inv, 500, Caught(sendError, inv.requestId))
  /\ LET hashedIp == hashIp(ClientIp(inv.req))
         entries == StoreGet(rateLimitStore, hashedIp)
     IN  rateLimitStore' =
           IF entries = <<>> THEN rateLimitStore
           ELSE StoreSet(rateLimitStore, hashedIp,
                         SubSeq(entries, 1, Len(entries) - 1))
  /\ UNCHANGED <<CONFIG, clock, history, origin, originResult, input, sanitized, rendered, digest>>

\* the await throws: the inner catch logs and rethrows, the outer catch logs
\* and responds
TransportReject(inv, sendError) ==
  /\ inv \in pending
  /\ pending' = pending \ {inv}
  /\ last' =
       Respond([inv EXCEPT
                  !.logs = @ \o <<LogResendApiError(inv.requestId, sendError),
                                  LogSubmissionError(inv.requestId, clock,
                                                     sendError, ClientIp(inv.req))>>],
               500, Caught(sendError, inv.requestId))
  /\ UNCHANGED <<CONFIG, rateLimitStore, clock, history, origin, originResult, input, sanitized, rendered, digest>>

\* the invocation ends: nothing of the request or the response is retained
Discard ==
  /\ last # NoLast
  /\ last' = NoLast
  /\ UNCHANGED <<CONFIG, rateLimitStore, clock, history, origin, originResult, pending, input, sanitized, rendered, digest>>

Next ==
  \/ TickH
  \/ Discard
  \/ \E req \in Requests : \E later \in clock..(clock + MaxDelay) :
       Receive(req, later)
  \/ \E inv \in pending : \E emailResult \in EmailResults :
       TransportResolve(inv, emailResult)
  \/ \E inv \in pending : \E sendError \in SendErrors :
       TransportReject(inv, sendError)

Spec == Init /\ [][Next]_vars

\* The handler runs to its response whenever it is not waiting, and an
\* invocation that has responded ends.  Nothing in the code bounds the wait for
\* resend.emails.send, so no fairness is assumed of the transport.
SpecLive == Spec /\ WF_vars(Discard)

(***************************************************************************)
(* The renderer on its own: a body is sanitized and rendered as handler    *)
(* does it (sanitizeObject, generateEmailHtml, generateEmailText), each of *)
(* the two generators reading the clock for itself, and rendered again at  *)
(* a later time.  The bodies are those that pass the required-field check  *)
(* and whose medications, if any, are an array of objects.                 *)
(***************************************************************************)
\* two medication entries: a complete one, and one without dosage and frequency
MedicationEntries ==
  << Object([k \in {<<"name">>, <<"dosage">>, <<"frequency">>} |->
               CASE k = <<"name">> -> Str(<<"m">>)
                 [] k = <<"dosage">> -> Str(<<"5">>)
                 [] k = <<"frequency">> -> Str(<<"<">>)]),
     Object([k \in {<<"name">>} |-> Str(<<"n">>)]) >>

\* the required fields with an optional patientId (absent, null, empty, plain,
\* numeric, or one character longer than the documented limit) and optional
\* medications, and with additionalNotes and allergies of several kinds; JSON
\* has no undefined, the property is absent instead
RenderBodies ==
  LET WithOptional(obj, name, x) ==
        IF x = Undefined THEN obj ELSE WithField(obj, name, x)
      LongText == Str([i \in 1..(MaxFieldLength + 1) |-> "a"])
  IN  { WithOptional(WithOptional(Form(Text, Text, Text, Text),
                                  <<"patientId">>, patientId),
                     Medications, medications) :
          patientId \in {Undefined, Null, Str(<<>>), Str(<<"a">>), Number(0),
                         Number(7), LongText},
          medications \in {Undefined} \cup
            {Array(a) :
               a \in ListsUpTo({MedicationEntries[i] : i \in DOMAIN MedicationEntries},
                               MaxMeds)} }
        \cup
      { WithOptional(Form(Text, Text, Text, allergies),
                     <<"additionalNotes">>, additionalNotes) :
          allergies \in {Text, Str(<<"<">>)},
          additionalNotes \in {Undefined, Str(<<>>), Text} }

InitRender ==
  /\ CONFIG \in [RATE_LIMIT_MAX : {MaxLimit},
                 RATE_LIMIT_WINDOW_MS : {MaxWindow},
                 ALLOWED_ORIGINS : {<<>>},
                 RESEND_API_KEY : {TRUE}]
  /\ rateLimitStore = <<>>
  /\ clock = 0
  /\ history = <<>>
  /\ origin = NoOrigin
  /\ originResult = <<>>
  /\ pending = {}
  /\ last = NoLast
  /\ input \in RenderBodies
  /\ sanitized = <<>>
  /\ rendered = <<>>
  /\ digest = <<>>

\* time passes between two renderings
TickR ==
  /\ clock < MaxTimeR
  /\ clock' = clock + 1
  /\ UNCHANGED <<CONFIG, rateLimitStore, history, origin, originResult, pending, last, input, sanitized, rendered, digest>>

\* const sanitizedData = sanitizeObject(body); const htmlContent =
\* generateEmailHtml(sanitizedData); const textContent =
\* generateEmailText(sanitizedData): new Date() is read once in each generator,
\* at clock in the first and at later in the second
Render(later) ==
  /\ Len(rendered) < MaxRenders
  /\ later <= MaxTimeR
  /\ LET sanitizedData == SanitizedData(input)
     IN  /\ sanitized' = <<sanitizedData>>
         /\ rendered' =
              Append(rendered,
                     [html |-> generateEmailHtml(sanitizedData, clock),
                      text |-> generateEmailText(sanitizedData, later)])
  /\ clock' = later
  /\ UNCHANGED <<CONFIG, rateLimitStore, history, origin, originResult, pending, last, input, digest>>

NextRender == TickR \/ \E later \in clock..(clock + MaxDelay) : Render(later)

SpecRender == InitRender /\ [][NextRender]_vars

(***************************************************************************)
(* The identifier hasher on its own: hashIp applied to an address.         *)
(***************************************************************************)
\* with these characters the fold passes 2^31 at six characters and 2^32 at seven
HashInputs == {Str(s) : s \in StringsUpTo({"1", "w"}, MaxIpLen)}

InitHash ==
  /\ CONFIG \in [RATE_LIMIT_MAX : {MaxLimit},
                 RATE_LIMIT_WINDOW_MS : {MaxWindow},
                 ALLOWED_ORIGINS : {<<>>},
                 RESEND_API_KEY : {TRUE}]
  /\ rateLimitStore = <<>>
  /\ clock = 0
  /\ history = <<>>
  /\ origin = NoOrigin
  /\ originResult = <<>>
  /\ pending = {}
  /\ last = NoLast
  /\ input \in HashInputs
  /\ sanitized = <<>>
  /\ rendered = <<>>
  /\ digest = <<>>

Hash ==
  /\ digest = <<>>
  /\ digest' = <<hashIp(input.v)>>
  /\ UNCHANGED <<CONFIG, rateLimitStore, clock, history, origin, originResult, pending, last, input, sanitized, rendered>>

SpecHash == InitHash /\ [][Hash]_vars

(***************************************************************************)
(* Concurrent invocations in one process.  The runtime runs one callback   *)
(* at a time: an invocation runs from its entry to its response, or to its *)
(* only await (resend.emails.send), without interruption, and other        *)
(* invocations enter and leave while it waits.                             *)
(***************************************************************************)
\* complete and incomplete submissions of one client from the allowed origin
ConcurrentRequests ==
  { Request("POST", Str(<<"a">>),
            [xff |-> Str(IpAa), remote |-> Str(IpC), userAgent |-> Undefined],
            Str(AppJson), b) :
      b \in {Form(Text, Text, Text, Text), Form(Text, Str(<<>>), Text, Text)} }

\* the results of Math.random().toString(36).substr(2, 9) of successive
\* invocations
RandomParts == <<"k3j9x2m1q", "7f2p0c4zd", "m5n1b8v3x", "q9w2e4r6t", "a1s3d5f7g">>

InitConcurrent ==
  /\ CONFIG \in [RATE_LIMIT_MAX : 0..MaxInFlight,
                 RATE_LIMIT_WINDOW_MS : 1..MaxWindowH,
                 ALLOWED_ORIGINS : {<< <<"a">> >>},
                 RESEND_API_KEY : {TRUE}]
  /\ rateLimitStore = <<>>
  /\ clock = 0
  /\ history = <<>>
  /\ origin = NoOrigin
  /\ originResult = <<>>
  /\ pending = {}
  /\ last = NoLast
  /\ input = NoInput
  /\ sanitized = <<>>
  /\ rendered = <<>>
  /\ digest = <<>>

\* an arrival whose write of the entry is lost when another invocation waits
\* for the transport
Arrive_LostUpdate(req) ==
  /\ Len(history) < MaxCalls /\ Len(history) < Len(RandomParts)
  /\ LET requestId == [now |-> clock, random |-> RandomParts[Len(history) + 1]]
         h == HandlerSync(req, requestId, clock, clock)
     IN  /\ h.await => Cardinality(pending) < MaxInFlight
         /\ rateLimitStore' = IF pending = {} THEN h.store ELSE rateLimitStore
         /\ history' = Append(history, CallRecord(ClientIp(req), clock,
                                                  checkRateLimit(ClientIp(req), clock)))
         /\ pending' = IF h.await THEN pending \cup {[h.outcome EXCEPT !.sends = 1]}
                       ELSE pending
         /\ last' = IF h.await THEN last ELSE h.outcome
  /\ UNCHANGED <<CONFIG, clock, origin, originResult, input, sanitized, rendered, digest>>

\* a request arrives while other invocations wait for the transport: handler
\* runs to its response or to the await; its rate check is recorded
Arrive(req) ==
  /\ Len(history) < MaxCalls /\ Len(history) < Len(RandomParts)
  /\ LET requestId == [now |-> clock, random |-> RandomParts[Len(history) + 1]]
         h == HandlerSync(req, requestId, clock, clock)
     IN  /\ h.await => Cardinality(pending) < MaxInFlight
         /\ rateLimitStore' = h.store
         /\ history' = Append(history, CallRecord(ClientIp(req), clock,
                                                  checkRateLimit(ClientIp(req), clock)))
         /\ pending' = IF h.await THEN pending \cup {[h.outcome EXCEPT !.sends = 1]}
                       ELSE pending
         /\ last' = IF h.await THEN last ELSE h.outcome
  /\ UNCHANGED <<CONFIG, clock, origin, originResult, input, sanitized, rendered, digest>>

\* time passes while invocations wait
TickConcurrent ==
  /\ clock < MaxTimeH
  /\ clock' = clock + 1
  /\ UNCHANGED <<CONFIG, rateLimitStore, history, origin, originResult, pending, last, input, sanitized, rendered, digest>>

NextConcurrent ==
  \/ TickConcurrent
  \/ \E req \in ConcurrentRequests : Arrive(req)
  \/ \E inv \in pending : \E emailResult \in EmailResults :
       TransportResolve(inv, emailResult)
  \/ \E inv \in pending : \E sendError \in SendErrors :
       TransportReject(inv, sendError)

SpecConcurrent == InitConcurrent /\ [][NextConcurrent]_vars

(***************************************************************************)
(* Properties of the rate limiter.                                         *)
(***************************************************************************)
Window == CONFIG.RATE_LIMIT_WINDOW_MS
MaxPerWindow == CONFIG.RATE_LIMIT_MAX

\* the positions of the entries of a stored sequence that are unexpired at now
Unexpired(before, now) == {i \in DOMAIN before : before[i] > now - Window}
UnexpiredCount(before, now) == Cardinality(Unexpired(before, now))
\* the timestamp of the oldest unexpired entry (there is one)
OldestUnexpired(before, now) ==
  CHOOSE t \in {before[i] : i \in Unexpired(before, now)} :
    \A i \in Unexpired(before, now) : t <= before[i]

\* every recorded call was made for the same identifier
SameIdentifier == \A i \in DOMAIN history : history[i].ip = history[1].ip
\* call n falls in the window that the first call opened
InFirstWindow(n) == history[n].now < history[1].now + Window

\* C1: for one identifier and a store that starts empty, the n-th call made
\* within the window opened by the first call is allowed exactly when
\* n <= maxPerWindow (so each of the first maxPerWindow calls is allowed and the
\* (maxPerWindow+1)-th is denied), and the first call made once that window has
\* elapsed is allowed again (maxPerWindow >= 1, as "again" presupposes).
C1_WindowMonotonic ==
  (history # <<>> /\ SameIdentifier) =>
    \A n \in DOMAIN history :
      /\ InFirstWindow(n) => (history[n].allowed <=> n <= MaxPerWindow)
      /\ (n > 1 /\ InFirstWindow(n - 1) /\ ~InFirstWindow(n) /\ MaxPerWindow >= 1)
           => history[n].allowed

\* maxPerWindow allowed calls, a denied one in the same window, and an allowed
\* one after the window has elapsed
C1_Witness ==
  /\ MaxPerWindow >= 1
  /\ Len(history) = MaxPerWindow + 2
  /\ SameIdentifier
  /\ \A n \in 1..MaxPerWindow : history[n].allowed /\ InFirstWindow(n)
  /\ InFirstWindow(MaxPerWindow + 1) /\ ~history[MaxPerWindow + 1].allowed
  /\ ~InFirstWindow(MaxPerWindow + 2) /\ history[MaxPerWindow + 2].allowed

\* the allowed calls of ip made in the interval [t, t + windowDuration)
AllowedIn(ip, t) ==
  {i \in DOMAIN history :
     /\ history[i].ip = ip
     /\ history[i].allowed
     /\ history[i].now >= t
     /\ history[i].now < t + Window}

\* C2: sliding-window bound: for every identifier and every interval
\* [t, t + windowDuration) of length windowDuration, wherever it starts, at most
\* maxPerWindow checks of that identifier made inside the interval are allowed.
C2_SlidingWindowBound ==
  \A ip \in Ips : \A t \in 0..MaxTime :
    Cardinality(AllowedIn(ip, t)) <= MaxPerWindow

\* an interval that does not start at the first call is full, a call inside it
\* was denied, and an earlier call outside it was allowed
C2_Witness ==
  \E ip \in Ips : \E t \in 1..MaxTime :
    /\ MaxPerWindow >= 1
    /\ Cardinality(AllowedIn(ip, t)) = MaxPerWindow
    /\ \E i \in DOMAIN history :
         history[i].ip = ip /\ ~history[i].allowed /\ history[i].now >= t
           /\ history[i].now < t + Window
    /\ \E i \in DOMAIN history :
         history[i].ip = ip /\ history[i].allowed /\ history[i].now < t

\* C3: on every allowed check, remaining = maxPerWindow - count - 1, where count
\* is the number of unexpired entries of the identifier before the call.
C3_RemainingOnAllowed ==
  \A i \in DOMAIN history :
    history[i].allowed =>
      history[i].remaining =
        MaxPerWindow - UnexpiredCount(history[i].before, history[i].now) - 1

\* C4: on every denied check (maxPerWindow >= 0, windowDuration > 0) there is an
\* unexpired entry, and resetAt is the oldest unexpired timestamp plus
\* windowDuration, strictly later than the time of the check.
C4_ResetAtOnDenied ==
  \A i \in DOMAIN history :
    ~history[i].allowed =>
      /\ Unexpired(history[i].before, history[i].now) # {}
      /\ IsNum(history[i].resetAt)
      /\ Val(history[i].resetAt) =
           OldestUnexpired(history[i].before, history[i].now) + Window
      /\ Val(history[i].resetAt) > history[i].now

(***************************************************************************)
(* Properties of the origin validator.                                     *)
(***************************************************************************)
AllowList == CONFIG.ALLOWED_ORIGINS
\* the validator has run, and it accepted the origin
OriginChecked == originResult # <<>>
OriginAccepted == originResult = <<TRUE>>
WildcardCount(entry) == Cardinality({i \in DOMAIN entry : entry[i] = "*"})
WildcardAt(entry) == CHOOSE i \in DOMAIN entry : entry[i] = "*"
\* the literal text before and after the wildcard of an entry P*S
Before(entry) == SubSeq(entry, 1, WildcardAt(entry) - 1)
After(entry) == SubSeq(entry, WildcardAt(entry) + 1, Len(entry))
\* o is P, then a non-empty sequence of characters, then S
WildcardAccepts(entry, o) ==
  /\ Len(o) > Len(Before(entry)) + Len(After(entry))
  /\ SubSeq(o, 1, Len(Before(entry))) = Before(entry)
  /\ SubSeq(o, Len(o) - Len(After(entry)) + 1, Len(o)) = After(entry)

\* C6: under an allow-list that consists of one entry P*S with a single
\* wildcard, an origin is accepted if and only if it is P followed by a
\* non-empty sequence of characters followed by S, every other character of the
\* entry matched literally and the match anchored at both ends.
C6_WildcardAnchored ==
  (/\ OriginChecked
   /\ origin.t = "string"
   /\ Len(AllowList) = 1
   /\ WildcardCount(AllowList[1]) = 1)
    => (OriginAccepted <=> WildcardAccepts(AllowList[1], origin.v))

\* no entry of the allow-list contains a wildcard
OnlyExactEntries == \A i \in DOMAIN AllowList : WildcardCount(AllowList[i]) = 0
IsMember(o) == \E i \in DOMAIN AllowList : AllowList[i] = o

\* C7 as stated: with an allow-list of only exact entries, isAllowed(origin) is
\* true iff origin is a member of the list.
C7_ExactIffMember ==
  (OriginChecked /\ origin.t = "string" /\ OnlyExactEntries)
    => (OriginAccepted <=> IsMember(origin.v))

\* C7 amended: with an allow-list of only exact entries, isAllowed(origin) is
\* true iff origin is a non-empty string that is character for character
\* identical to an entry of the list; a missing origin is never admitted.
C7_ExactIffNonEmptyMember ==
  (OriginChecked /\ OnlyExactEntries) =>
    (OriginAccepted <=>
       (origin.t = "string" /\ origin.v # <<>> /\ IsMember(origin.v)))

\* an origin admitted by the second of two exact entries, and not by an entry
\* that is a proper prefix of it
C7_Witness ==
  /\ OnlyExactEntries
  /\ Len(AllowList) = 2
  /\ origin.t = "string"
  /\ OriginAccepted
  /\ AllowList[2] = origin.v
  /\ AllowList[1] # <<>> /\ AllowList[1] # origin.v
  /\ Len(AllowList[1]) < Len(origin.v)
  /\ SubSeq(origin.v, 1, Len(AllowList[1])) = AllowList[1]

(***************************************************************************)
(* Properties of the request handler.                                      *)
(***************************************************************************)
\* an invocation has responded
Responded == last # NoLast
\* the rate check of the invocation that responded reported not-allowed
RateDenied == last.rateLimit.called /\ ~last.rateLimit.allowed

\* C5: every response produced because the rate check reported not-allowed is a
\* 429 whose retryAfter is a whole number of seconds >= 1.
C5_RetryAfterPositive ==
  (Responded /\ RateDenied) =>
    /\ last.status = 429
    /\ IsNum(last.json.retryAfter)
    /\ Val(last.json.retryAfter) >= 1

DenialBody == [success |-> FALSE, error |-> <<"Access denied from this origin">>]
HasWildcardEntry ==
  \E i \in DOMAIN AllowList : WildcardCount(AllowList[i]) > 0
NoCorsHeaders ==
  /\ last.headers.allowOrigin = Undefined
  /\ last.headers.names \cap
       {"Access-Control-Allow-Origin", "Access-Control-Allow-Methods",
        "Access-Control-Allow-Headers"} = {}

C9_DeniedOriginNoDelivery ==
  /\ (Responded /\ last.req.method = "POST" /\ ~isAllowedOrigin(last.req.origin)) =>
       /\ last.status = 403
       /\ last.json = DenialBody
       /\ last.sends = 0
       /\ ~last.rateLimit.called
  /\ \A inv \in pending : isAllowedOrigin(inv.req.origin)

\* a complete submission from a non-listed origin turned away while the store
\* holds an entry of its client
C9_Witness ==
  /\ Responded
  /\ last.req.method = "POST"
  /\ last.req.origin = Str(<<"b">>)
  /\ last.req.body = Form(Text, Text, Text, Text)
  /\ IsJsonContentType(last.req.contentType)
  /\ StoreGet(rateLimitStore, hashIp(ClientIp(last.req))) # <<>>
  /\ last.status = 403
  /\ last.sends = 0

\* the invocation reached the required-field check
ReachedFieldCheck(inv) ==
  /\ inv.req.method = "POST"
  /\ inv.rateLimit.called /\ inv.rateLimit.allowed
  /\ IsJsonContentType(inv.req.contentType)

\* a required field is absent (no such property, undefined or null, or the body
\* is absent or no object) or empty (the empty string or a blank one)
AbsentOrEmpty(body, field) ==
  \/ body.t # "object"
  \/ field \notin DOMAIN body.v
  \/ body.v[field].t \in {"undefined", "null"}
  \/ body.v[field].t = "string" /\ \A i \in DOMAIN body.v[field].v :
                                     body.v[field].v[i] \in WhiteSpace
ExpectedMissing(body) ==
  {RequiredFields[i][1] : i \in {j \in DOMAIN RequiredFields :
                                   AbsentOrEmpty(body, RequiredFields[j])}}
\* the field names a missing-fields message lists
NamesListed(error) == {error[i] : i \in 2..Len(error)} \ {", "}

\* C10: for every POST that reaches the required-field check, whatever the body
\* (absent and non-object bodies included): if a required field is absent or
\* empty the response is a 400 whose message names exactly the absent or empty
\* required fields; otherwise the request proceeds to sanitization.
C10_MissingFieldsExactly ==
  /\ (Responded /\ ReachedFieldCheck(last)) =>
       IF ExpectedMissing(last.req.body) # {}
       THEN /\ last.status = 400
            /\ last.json.error[1] = "Missing required fields: "
            /\ NamesListed(last.json.error) = ExpectedMissing(last.req.body)
       ELSE last.status # 400
  /\ \A inv \in pending : ExpectedMissing(inv.req.body) = {}

(***************************************************************************)
(* Properties of the sanitizer.                                            *)
(***************************************************************************)
SpecialChars == {"&", "<", ">", "\"", "'", "/"}
\* the entity of a character, the character itself if it has none
Entity(c) ==
  CASE c = "&" -> <<"&", "a", "m", "p", ";">>
    [] c = "<" -> <<"&", "l", "t", ";">>
    [] c = ">" -> <<"&", "g", "t", ";">>
    [] c = "\"" -> <<"&", "q", "u", "o", "t", ";">>
    [] c = "'" -> <<"&", "#", "x", "2", "7", ";">>
    [] c = "/" -> <<"&", "#", "x", "2", "F", ";">>
    [] OTHER -> <<c>>
\* the character-wise encoding of a string
RECURSIVE EncodeChars(_)
EncodeChars(str) ==
  IF str = <<>> THEN <<>> ELSE Entity(str[1]) \o EncodeChars(Tail(str))

\* y has the shape of x, its string leaves and keys the encodings of those of x
RECURSIVE Isomorphic(_, _)
Isomorphic(x, y) ==
  CASE x.t = "string" -> y = Str(EncodeChars(x.v))
    [] x.t = "array" ->
         /\ y.t = "array"
         /\ Len(y.v) = Len(x.v)
         /\ \A i \in DOMAIN x.v : Isomorphic(x.v[i], y.v[i])
    [] x.t = "object" ->
         /\ y.t = "object"
         /\ OwnKeys(y) = {EncodeChars(key) : key \in OwnKeys(x)}
         /\ Cardinality(OwnKeys(y)) = Cardinality(OwnKeys(x))
         /\ \A key \in OwnKeys(x) : Isomorphic(x.v[key], y.v[EncodeChars(key)])
    [] OTHER -> y = x

\* C11: sanitize returns a value of the same shape as its input: sequences of
\* the same length and order, a mapping with exactly one output key per input
\* key (the encoded key), every string leaf the character-wise encoding of the
\* input leaf, every other primitive unchanged.
C11_StructurePreserved ==
  sanitized # <<>> => Isomorphic(input, sanitized[1])

\* the keys of x whose values sanitize carries over: all but a "__proto__" that
\* holds a primitive, which is dropped
KeptKeys(x) ==
  OwnKeys(x) \ (IF AssignsPrototype(x) THEN {} ELSE {ProtoKey})

\* a string leaf or a key that sanitize carries over, somewhere in x, holds one
\* of the six characters
RECURSIVE HasSpecial(_)
HasSpecial(x) ==
  CASE x.t = "string" -> \E i \in DOMAIN x.v : x.v[i] \in SpecialChars
    [] x.t = "array" -> \E i \in DOMAIN x.v : HasSpecial(x.v[i])
    [] x.t = "object" ->
         \E key \in KeptKeys(x) :
           \/ \E i \in DOMAIN key : key[i] \in SpecialChars
           \/ HasSpecial(x.v[key])
    [] OTHER -> FALSE

\* somewhere in x a key "__proto__" holds an object or null
RECURSIVE HasPrototypeEntry(_)
HasPrototypeEntry(x) ==
  CASE x.t = "array" -> \E i \in DOMAIN x.v : HasPrototypeEntry(x.v[i])
    [] x.t = "object" ->
         \/ AssignsPrototype(x)
         \/ \E key \in OwnKeys(x) : HasPrototypeEntry(x.v[key])
    [] OTHER -> FALSE

TwoPasses == Len(sanitized) >= 2

Sent == pending \cup (IF Responded /\ last.sends > 0 THEN {last} ELSE {})
\* all invocations
Invocations == pending \cup (IF Responded THEN {last} ELSE {})

RawChars == {"<", ">", "\"", "'", "/"}
NoRawChar(content) == \A i \in DOMAIN content : content[i] \notin RawChars

\* the submitted patient name, once encoded
EncodedName(inv) == EncodeChars(inv.req.body.v[PatientName].v)

NonPhiLogFields ==
  {"level", "event", "requestId", "timestamp", "origin", "ipHash", "userAgent",
   "emailId", "remaining", "from", "to", "htmlLength", "textLength", "error",
   "errorName", "errorStatus", "errorResponse", "errorStack", "errorDetails"}
\* the text after the fixed prefix of a subject preview is the beginning of a
\* submitted string value, raw or encoded
PreviewHoldsValue(preview, body) ==
  \E field \in OwnKeys(body) :
    /\ body.v[field].t = "string"
    /\ \E n \in 1..Len(preview) - 1 :
         \/ Tail(preview) = SubSeq(body.v[field].v, 1, n)
         \/ Tail(preview) = SubSeq(EncodeChars(body.v[field].v), 1, n)

\* C14: no log record of any invocation, on any path, holds a submitted field
\* value or a part of one, raw or encoded; log records carry only request id,
\* timestamps, hashed identifier, declared origin, truncated user agent, status
\* and transport metadata.
C14_NoFieldValueLogged ==
  \A inv \in Invocations : \A i \in DOMAIN inv.logs :
    /\ DOMAIN inv.logs[i] \subseteq NonPhiLogFields
    /\ "subjectPreview" \in DOMAIN inv.logs[i] =>
         ~PreviewHoldsValue(inv.logs[i].subjectPreview, inv.req.body)

GenericFailure == <<"Failed to process submission. Please try again.">>
\* the transport was called and its call failed
TransportFailed(inv) == inv.sends > 0 /\ inv.status # 0 /\ inv.status # 200

\* C15: when the mail transport call fails, the response is a 500 whose error
\* text is the fixed retry-suggesting message, the same for every transport
\* failure, without the message or the details of the transport exception.
C15_GenericDeliveryError ==
  (Responded /\ TransportFailed(last)) =>
    /\ last.status = 500
    /\ last.json.error = GenericFailure
    /\ last.json.errorDetails = Null

\* C16: every invocation eventually responds; an invocation waiting for a mail
\* transport that never returns fails once the configured timeout elapses.
C16_EventuallyResponds == (pending # {}) ~> (pending = {})

\* C17: an invocation that has terminated has sent exactly one response, one
\* status and one body, on every path; an invocation that waits for the
\* transport has sent none.
C17_ExactlyOneResponse ==
  /\ Responded => (last.responses = 1 /\ last.status # 0 /\ last.json # NoJson)
  /\ \A inv \in pending : inv.responses = 0 /\ inv.status = 0

\* the transport rejected: the inner catch logged and rethrew, the outer catch
\* logged and sent the one response
C17_Witness ==
  /\ Responded
  /\ last.sends = 1
  /\ last.status = 500
  /\ last.responses = 1
  /\ Len(last.logs) = 3
  /\ last.logs[2].event = "RESEND_API_ERROR"
  /\ last.logs[3].event = "SUBMISSION_ERROR"

\* C18: on transport success the requestId of the success response is the
\* identifier the mail transport assigned to the delivery, and
\* remainingSubmissions is the remaining of the invocation's own rate check.
C18_TransportIdReturned ==
  (Responded /\ last.status = 200) =>
    /\ last.json.requestId = last.emailResult.id
    /\ last.json.remainingSubmissions = last.rateLimit.remaining

\* a POST from an allowed origin, under the rate limit, with JSON content type,
\* a body with every required field populated, and the credential configured
CompleteSubmission(inv) ==
  /\ ReachedFieldCheck(inv)
  /\ isAllowedOrigin(inv.req.origin)
  /\ inv.req.body.t = "object"
  /\ ExpectedMissing(inv.req.body) = {}
  /\ CONFIG.RESEND_API_KEY

\* C19: every complete submission makes exactly one delivery attempt, and when
\* the transport succeeds the answer is a 2xx with success: true and a
\* requestId.
C19_CompleteSubmissionDelivered ==
  (Responded /\ CompleteSubmission(last)) =>
    /\ last.sends = 1
    /\ last.emailResult # NoEmailResult =>
         (last.status = 200 /\ last.json.success
            /\ last.json.requestId = last.requestId)

CorsHeaders ==
  {"Access-Control-Allow-Origin", "Access-Control-Allow-Methods",
   "Access-Control-Allow-Headers"}

\* C20: a response carries a CORS allow-origin, allow-methods or allow-headers
\* header only if the origin of its request passed the origin validator,
\* whatever the method, and allow-origin then echoes exactly that origin.
C20_CorsOnlyForValidatedOrigin ==
  \A inv \in Invocations :
    /\ inv.headers.names \cap CorsHeaders # {} =>
         /\ isAllowedOrigin(inv.req.origin)
         /\ "Access-Control-Allow-Origin" \in inv.headers.names
         /\ inv.headers.allowOrigin = inv.req.origin
    /\ ~isAllowedOrigin(inv.req.origin) =>
         /\ inv.headers.names \cap CorsHeaders = {}
         /\ inv.headers.allowOrigin = Undefined

\* a preflight from an origin that is not listed, answered without CORS headers
C20_Witness ==
  /\ Responded
  /\ last.req.method = "OPTIONS"
  /\ last.req.origin = Str(<<"b">>)
  /\ ~isAllowedOrigin(last.req.origin)
  /\ last.status = 204
  /\ last.headers.names = SECURITY_HEADERS

(***************************************************************************)
(* Properties of the preflight, the configuration check and the transport. *)
(***************************************************************************)
\* the request of an invocation with another body and content type
WithPayload(req, b, c) == [req EXCEPT !.body = b, !.contentType = c]

\* C21: a preflight (OPTIONS) request is always answered with 204 and an empty
\* response, whether or not its origin is allowed, and runs no business logic:
\* no rate check (the store is unchanged), no call of the mail transport, no
\* log record, and the same outcome whatever body and content type it carries.
C21_PreflightNoBusinessLogic ==
  [][ /\ \A inv \in pending' : inv.req.method # "OPTIONS"
      /\ (last = NoLast /\ last' # NoLast /\ last'.req.method = "OPTIONS") =>
            /\ last'.status = 204
            /\ last'.json = NoBody
            /\ last'.responses = 1
            /\ ~last'.rateLimit.called
            /\ rateLimitStore' = rateLimitStore
            /\ last'.sends = 0
            /\ last'.message = NoMessage
            /\ last'.logs = <<>>
            /\ \A b \in Bodies, c \in ContentTypes :
                 LET h == HandlerSync(WithPayload(last'.req, b, c),
                                      last'.requestId, clock, clock)
                 IN  /\ ~h.await
                     /\ h.store = rateLimitStore
                     /\ h.outcome = [last' EXCEPT !.req = WithPayload(@, b, c)]
    ]_vars

\* a preflight from an origin that is not allowed, answered with 204 while the
\* store holds the entry of an earlier submission
C21_Witness ==
  /\ Responded
  /\ last.req.method = "OPTIONS"
  /\ ~isAllowedOrigin(last.req.origin)
  /\ last.status = 204
  /\ rateLimitStore # <<>>

\* the invocation passed the origin, rate, content-type and required-field checks
PassedChecks(inv) ==
  /\ ReachedFieldCheck(inv)
  /\ isAllowedOrigin(inv.req.origin)
  /\ inv.req.body.t \notin {"undefined", "null"}
  /\ ExpectedMissing(inv.req.body) = {}

\* C22: when the mail-transport credential is absent, no invocation ever calls
\* the mail transport, and every POST that passes the origin, rate,
\* content-type and required-field checks gets exactly one response, the 500
\* "Server configuration error", logged at error severity.
C22_MissingKeyFailsClosed ==
  ~CONFIG.RESEND_API_KEY =>
    /\ pending = {}
    /\ Responded =>
         /\ last.sends = 0
         /\ last.message = NoMessage
         /\ PassedChecks(last) =>
              /\ last.status = 500
              /\ last.responses = 1
              /\ last.json = Failure("Server configuration error")
              /\ \E i \in DOMAIN last.logs :
                   /\ last.logs[i].level = "ERROR"
                   /\ last.logs[i].event = "CONFIG_MISSING_API_KEY"

\* a complete submission with markup in its fields answered with the 500 of the
\* missing credential
C22_Witness ==
  /\ ~CONFIG.RESEND_API_KEY
  /\ Responded
  /\ PassedChecks(last)
  /\ GetProp(last.req.body, PatientName) = Markup
  /\ last.status = 500
  /\ last.sends = 0

\* C23: an invocation calls the mail transport at most once: while it waits it
\* has made one call, and when the transport settles (resolves or rejects) the
\* invocation responds once and is never handed to the transport again.
C23_AtMostOneSend ==
  [][ /\ \A inv \in pending' : inv.sends = 1
      /\ last' # NoLast => last'.sends <= 1
      /\ pending' \subseteq pending \/ pending = {}
      /\ \A inv \in pending \ pending' :
           /\ last' # NoLast
           /\ last'.requestId = inv.requestId
           /\ last'.message = inv.message
           /\ last'.sends = 1
           /\ last'.responses = 1
    ]_vars

\* the transport rejected the one call, and the invocation answered with a 500
C23_Witness ==
  /\ Responded
  /\ last.status = 500
  /\ last.sends = 1
  /\ \E i \in DOMAIN last.logs : last.logs[i].event = "RESEND_API_ERROR"

(***************************************************************************)
(* Properties of the renderer.                                             *)
(***************************************************************************)
Placeholders == {"N/A", "None reported", "None", "No medications reported"}
\* what a rendered value is made of: the characters of the sanitized values and
\* of the numbers, the placeholders, and the fixed parts of a timestamp; every
\* other part of a document is fixed markup, a heading or a label
ValueAtoms ==
  Placeholders \cup {Digits[i] : i \in DOMAIN Digits}
    \cup {"a", "m", "n", "&", "l", "t", ";"} \cup {"1970-01-01T00:00:00.", "Z"}

\* the values a document shows from position i on, in order: its maximal runs
\* of value atoms
RECURSIVE Runs(_, _)
Runs(doc, i) ==
  IF \A k \in i..Len(doc) : doc[k] \notin ValueAtoms THEN <<>>
  ELSE LET first == CHOOSE k \in i..Len(doc) :
                      /\ doc[k] \in ValueAtoms
                      /\ \A j \in i..(k - 1) : doc[j] \notin ValueAtoms
           end == CHOOSE k \in first..Len(doc) :
                    /\ k = Len(doc) \/ doc[k + 1] \notin ValueAtoms
                    /\ \A j \in first..k : doc[j] \in ValueAtoms
       IN  <<SubSeq(doc, first, end)>> \o Runs(doc, end + 1)
\* the values after the submission time
FieldRuns(doc) == Tail(Runs(doc, 1))

\* the sanitized submission that was rendered
RenderedData == sanitized[1]

\* a field is absent (no property, or null) or empty (the empty string)
AbsentOrEmptyValue(x) == x.t \in {"undefined", "null"} \/ x = Str(<<>>)
\* the value a document is to show for a field
Shown(field, placeholder) ==
  LET x == GetProp(RenderedData, field)
  IN  IF AbsentOrEmptyValue(x) THEN <<placeholder>> ELSE ToStringJS(x)

\* the eight fields before the medications and the two after them
LeadingFields ==
  << Shown(<<"patientId">>, "N/A"), Shown(PatientName, "N/A"),
     Shown(DateOfBirth, "N/A"), Shown(<<"patientPhone">>, "N/A"),
     Shown(HomePharmacy, "N/A"), Shown(<<"pharmacyAddress">>, "N/A"),
     Shown(<<"pharmacyPhone">>, "N/A"), Shown(<<"pharmacyFax">>, "N/A") >>
TrailingFields ==
  << Shown(Allergies, "None reported"), Shown(<<"additionalNotes">>, "None") >>

\* C24: the markup body and the plain-text body of every rendered pair show the
\* same values in the same order over the fixed field list; a field shows its
\* placeholder exactly when it is absent or empty, and its value unchanged
\* otherwise.
C24_SameValuesSameOrder ==
  \A n \in DOMAIN rendered :
    LET h == FieldRuns(rendered[n].html)
        t == FieldRuns(rendered[n].text)
    IN  /\ h = t
        /\ Len(h) >= 11
        /\ SubSeq(h, 1, 8) = LeadingFields
        /\ SubSeq(h, Len(h) - 1, Len(h)) = TrailingFields

\* the medication entries of the rendered submission, <<>> for an absent group
Entries ==
  LET meds == GetProp(RenderedData, Medications)
  IN  IF meds.t = "array" THEN meds.v ELSE <<>>
\* what a block is to show of the k-th entry
EntryShown(k, field) ==
  LET x == GetProp(Entries[k], field)
  IN  IF AbsentOrEmptyValue(x) THEN <<"N/A">> ELSE ToStringJS(x)
\* the header count, then the label and the three values of each entry in input
\* order, or the single line of an absent or empty group
MedicationGroup ==
  <<NumberToString(Len(Entries))>> \o
    (IF Entries = <<>> THEN << <<"No medications reported">> >>
     ELSE [i \in 1..(4 * Len(Entries)) |->
             LET k == ((i - 1) \div 4) + 1
             IN  CASE i % 4 = 1 -> NumberToString(k)
                   [] i % 4 = 2 -> EntryShown(k, <<"name">>)
                   [] i % 4 = 3 -> EntryShown(k, <<"dosage">>)
                   [] OTHER -> EntryShown(k, <<"frequency">>)])
\* the part of a document between the eight leading and the two trailing fields
GroupRuns(doc) == SubSeq(FieldRuns(doc), 9, Len(FieldRuns(doc)) - 2)

\* C25: in both bodies the medication group is the header count, equal to the
\* number of entries, followed by exactly one block per entry in input order,
\* the k-th block labelled k (from 1); an absent or empty group is the count 0
\* followed by exactly one "No medications reported" line and no block.
C25_OneBlockPerEntry ==
  \A n \in DOMAIN rendered :
    /\ GroupRuns(rendered[n].html) = MedicationGroup
    /\ GroupRuns(rendered[n].text) = MedicationGroup

\* two entries, the first without dosage and frequency, rendered in input order
C25_Witness ==
  /\ rendered # <<>>
  /\ Entries = <<sanitizeObject(MedicationEntries[2]),
                sanitizeObject(MedicationEntries[1])>>
  /\ GroupRuns(rendered[1].html) =
       << <<"2">>, <<"1">>, <<"n">>, <<"N/A">>, <<"N/A">>,
          <<"2">>, <<"m">>, <<"5">>, <<"&", "l", "t", ";">> >>

\* C26: the rendered pair is a function of the sanitized submission alone: two
\* renderings of the same submission, whenever they are made, yield the same
\* pair, and the two bodies of a pair agree on every value that both show (the
\* submission time included).
C26_RenderingDeterministic ==
  /\ \A m, n \in DOMAIN rendered : rendered[m] = rendered[n]
  /\ \A n \in DOMAIN rendered :
       Runs(rendered[n].html, 1) = Runs(rendered[n].text, 1)

(***************************************************************************)
(* Properties of the identifier hasher.                                    *)
(***************************************************************************)
\* 31 * h + c modulo 2^32, on 16-bit limbs
Times31Plus(h, c) ==
  LET l == (31 * h.lo) + c
  IN  [lo |-> l % Limb, hi |-> ((31 * h.hi) + (l \div Limb)) % Limb]
\* the fold h := 31 * h + charCode over the characters, from h = 0
RECURSIVE Fold(_)
Fold(str) ==
  IF str = <<>> THEN Zero32
  ELSE Times31Plus(Fold(SubSeq(str, 1, Len(str) - 1)), CharCode(str[Len(str)]))
\* the base-16 digits of a natural number, "0" for 0
RECURSIVE Base16(_)
Base16(n) ==
  IF n < 16 THEN <<HexDigit[n + 1]>>
  ELSE Base16(n \div 16) \o <<HexDigit[(n % 16) + 1]>>
\* the base-16 digits of hi * 2^16 + lo
Base16Limbs(hi, lo) ==
  IF hi = 0 THEN Base16(lo)
  ELSE Base16(hi) \o [i \in 1..(4 - Len(Base16(lo))) |-> "0"] \o Base16(lo)
\* the base-16 rendering of the signed 32-bit value of h: a value of 2^31 or
\* more stands for the negative number h - 2^32
SignedBase16(h) ==
  IF h.hi < 32768 THEN Base16Limbs(h.hi, h.lo)
  ELSE <<"-">> \o
         Base16Limbs((Limb - 1 - h.hi + (IF h.lo = 0 THEN 1 ELSE 0)) % Limb,
                     (Limb - h.lo) % Limb)

\* C27: hashIp returns, for every string (the empty one included), the base-16
\* rendering of the signed 32-bit value of the fold h := 31 * h + charCode
\* modulo 2^32 from h = 0; the empty string gives "0", and hashing the same
\* string again gives the same digest.
C27_HashIsSignedFold ==
  digest # <<>> =>
    /\ digest[1] = SignedBase16(Fold(input.v))
    /\ digest[1] = hashIp(input.v)
    /\ input.v = <<>> => digest[1] = <<"0">>

\* an address whose fold exceeds 2^31: the digest is that of a negative number
C27_Witness ==
  /\ input = Str(<<"w", "w", "w", "w", "w", "w">>)
  /\ digest = << <<"-", "2", "e", "2", "a", "7", "b", "6", "0">> >>

(***************************************************************************)
(* Properties of the quota, the length of the values and the retained      *)
(* state.                                                                  *)
(***************************************************************************)
\* the earlier allowed calls under the identifier of the n-th call that are
\* unexpired at the time of the n-th call
OwnUnexpired(n) ==
  {m \in 1..(n - 1) : /\ history[m].ip = history[n].ip
                      /\ history[m].allowed
                      /\ history[m].now > history[n].now - Window}

\* C28: each client identifier has its own quota: a call is allowed exactly
\* when fewer than maxPerWindow earlier calls under the same identifier are
\* unexpired, its remaining value depends on those calls alone, and the entry it
\* finds holds only timestamps of calls under the same identifier.
C28_QuotaPerIdentifier ==
  \A n \in DOMAIN history :
    /\ history[n].allowed <=> Cardinality(OwnUnexpired(n)) < MaxPerWindow
    /\ history[n].allowed =>
         history[n].remaining = MaxPerWindow - Cardinality(OwnUnexpired(n)) - 2
    /\ \A i \in DOMAIN history[n].before :
         \E m \in 1..(n - 1) : /\ history[m].ip = history[n].ip
                                /\ history[m].now = history[n].before[i]

\* C29: every value shown by a rendered body, the markup body and the
\* plain-text body that handler hands to the mail transport, is at most
\* MaxFieldLength (1000) characters long, whatever the length of the submitted
\* value.
C29_ValuesLengthLimited ==
  \A n \in DOMAIN rendered :
    /\ \A i \in DOMAIN Runs(rendered[n].html, 1) :
         Len(Runs(rendered[n].html, 1)[i]) <= MaxFieldLength
    /\ \A i \in DOMAIN Runs(rendered[n].text, 1) :
         Len(Runs(rendered[n].text, 1)[i]) <= MaxFieldLength

\* a store of digests and timestamps: every key is a base-16 numeral, every
\* value a sequence of readings of the clock
StoreShape(store, now) ==
  \A key \in DOMAIN store :
    /\ key # <<>>
    /\ \A i \in DOMAIN key :
         key[i] \in {HexDigit[d] : d \in DOMAIN HexDigit} \cup {"-"}
    /\ \A i \in DOMAIN store[key] : store[key][i] \in 0..now
\* the invocations that entered handler in this step
Started ==
  (pending' \ pending) \cup
    (IF pending = {} /\ last = NoLast /\ last' # NoLast THEN {last'} ELSE {})

\* C30: the state that outlives an invocation is CONFIG, which never changes,
\* and the rate-limit store, which maps digests to sequences of timestamps and
\* is the one the same request without its body leaves; a step in which no
\* invocation enters handler (the transport settling, the invocation ending)
\* leaves the store as it is, and when the invocation ends nothing of it
\* remains.
C30_ZeroPersistence ==
  [][ /\ CONFIG' = CONFIG
      /\ StoreShape(rateLimitStore', clock')
      /\ Started = {} => rateLimitStore' = rateLimitStore
      /\ \A inv \in Started :
           HandlerSync(WithPayload(inv.req, Undefined, inv.req.contentType),
                       inv.requestId, clock, clock').store = rateLimitStore'
      /\ (last # NoLast /\ last' = NoLast) =>
           /\ pending' = {}
           /\ <<history', input', sanitized', rendered'>> = <<<<>>, NoInput, <<>>, <<>>>>
    ]_vars

\* a delivered submission with markup in its fields, its timestamp in the store
C30_Witness ==
  /\ Responded
  /\ last.status = 200
  /\ GetProp(last.req.body, PatientName) = Markup
  /\ rateLimitStore # <<>>

(***************************************************************************)
(* Properties of the order of the checks.                                  *)
(***************************************************************************)
\* the invocation a step has started: the one that responded at once, or the
\* one that waits for the transport
Entered == IF last' # NoLast THEN last' ELSE CHOOSE inv \in pending' : TRUE
\* a step in which handler is entered
Enters == pending = {} /\ last = NoLast /\ (last' # NoLast \/ pending' # {})

\* the quota of the client of req is spent at the time of the step
QuotaSpent(req) ==
  UnexpiredCount(StoreGet(rateLimitStore, hashIp(ClientIp(req))), clock)
    >= MaxPerWindow

\* the earliest check that req fails, judged on the request, the configuration
\* and the store before the step; "delivery" when it fails none
FirstFailing(req) ==
  IF ~isAllowedOrigin(req.origin) THEN "origin"
  ELSE IF QuotaSpent(req) THEN "rate limit"
  ELSE IF ~IsJsonContentType(req.contentType) THEN "content type"
  ELSE IF ExpectedMissing(req.body) # {} THEN "required fields"
  ELSE IF ~CONFIG.RESEND_API_KEY THEN "credential"
  ELSE "delivery"

\* the point at which the invocation left the sequence of checks, read off its
\* response; "exception" is the catch block's response
ExitPoint(inv) ==
  CASE inv.status = 403 -> "origin"
    [] inv.status = 429 -> "rate limit"
    [] inv.status = 400 /\ inv.json.error[1] = "Invalid content type. Expected application/json"
         -> "content type"
    [] inv.status = 400 /\ inv.json.error[1] = "Missing required fields: "
         -> "required fields"
    [] inv.status = 500 /\ inv.json.error[1] = "Server configuration error"
         -> "credential"
    [] inv.status = 0 -> "delivery"
    [] OTHER -> "exception"

\* C31: the checks of a POST run in the order origin, rate limit, content
\* type, required fields, credential, delivery: the response is the one of the
\* earliest check the request fails, whatever later checks it would fail too,
\* and no later step runs after the exit (no rate check and an unchanged store
\* after an origin denial, no call of the transport and no message after any
\* early exit).  The catch block answers only in place of the required-field
\* check or of the steps towards delivery, never ahead of an earlier check.
C31_CheckPrecedence ==
  [][ (Enters /\ Entered.req.method = "POST") =>
        LET inv == Entered
            exit == ExitPoint(inv)
            first == FirstFailing(inv.req)
        IN  /\ exit # "exception" => exit = first
            /\ exit = "exception" => first \in {"required fields", "delivery"}
            /\ inv.responses = (IF exit = "delivery" THEN 0 ELSE 1)
            /\ exit = "origin" =>
                  ~inv.rateLimit.called /\ rateLimitStore' = rateLimitStore
            /\ exit = "rate limit" => rateLimitStore' = rateLimitStore
            /\ exit # "origin" => inv.rateLimit.called
            /\ exit # "delivery" =>
                  /\ inv.sends = 0
                  /\ inv.message = NoMessage
                  /\ pending' = {}
                  /\ \A i \in DOMAIN inv.logs : inv.logs[i].event # "SENDING_EMAIL"
            /\ exit \in {"origin", "rate limit", "content type", "required fields"} =>
                  \A i \in DOMAIN inv.logs :
                    inv.logs[i].event # "CONFIG_MISSING_API_KEY"
    ]_vars

\* a client whose quota is spent sends a POST without the required fields and
\* with a wrong content type, under a configuration without the credential,
\* and gets the rate-limit response
C31_Witness ==
  /\ Responded
  /\ last.req.method = "POST"
  /\ isAllowedOrigin(last.req.origin)
  /\ ~IsJsonContentType(last.req.contentType)
  /\ ExpectedMissing(last.req.body) # {}
  /\ ~CONFIG.RESEND_API_KEY
  /\ MaxPerWindow >= 1
  /\ last.status = 429
  /\ last.sends = 0

(***************************************************************************)
(* Properties of the stored entries.                                       *)
(***************************************************************************)
\* a sequence of timestamps in non-decreasing order
NonDecreasing(entries) ==
  \A i, j \in DOMAIN entries : i <= j => entries[i] <= entries[j]

\* C32: in every reachable state of the rate limiter under a non-decreasing
\* clock, the sequence stored for each hashed identifier has at most
\* maxPerWindow elements and is in non-decreasing order, so that its first
\* element is the oldest.
C32_StoreBoundedAndOrdered ==
  \A k \in DOMAIN rateLimitStore :
    /\ Len(rateLimitStore[k]) <= MaxPerWindow
    /\ NonDecreasing(rateLimitStore[k])
    /\ \A i \in DOMAIN rateLimitStore[k] :
         rateLimitStore[k][1] <= rateLimitStore[k][i]

\* an entry filled to the limit with timestamps of different times, after a
\* call that was denied
C32_Witness ==
  /\ MaxPerWindow >= 2
  /\ \E k \in DOMAIN rateLimitStore :
       /\ Len(rateLimitStore[k]) = MaxPerWindow
       /\ rateLimitStore[k][1] < rateLimitStore[k][MaxPerWindow]
  /\ \E n \in DOMAIN history : ~history[n].allowed

(***************************************************************************)
(* Properties of concurrent invocations.                                   *)
(***************************************************************************)
\* the recorded calls under the hashed identifier k that were admitted and are
\* unexpired at the present time
AdmittedUnexpired(k) ==
  {n \in DOMAIN history :
     /\ hashIp(history[n].ip) = k
     /\ history[n].allowed
     /\ history[n].now > clock - Window}

\* C33: under every interleaving of invocations of one process, each of which
\* suspends only while it awaits the mail transport, the read-filter-append-
\* write of an invocation is atomic: every call finds in the entry exactly the
\* timestamps of the admitted calls before it (none lost or overwritten), the
\* store holds one unexpired timestamp per admitted unexpired call, and in
\* no interval of length windowDuration more than maxPerWindow calls of one
\* identifier are admitted, whether they wait for the transport or have ended.
C33_AtomicRateCheck ==
  /\ \A ip \in {history[n].ip : n \in DOMAIN history} :
       /\ UnexpiredCount(StoreGet(rateLimitStore, hashIp(ip)), clock)
            = Cardinality(AdmittedUnexpired(hashIp(ip)))
       /\ \A t \in 0..MaxTime : Cardinality(AllowedIn(ip, t)) <= MaxPerWindow
  /\ \A n \in DOMAIN history :
       \A m \in 1..(n - 1) :
         (/\ history[m].ip = history[n].ip
          /\ history[m].allowed
          /\ history[m].now > history[n].now - Window)
           => \E i \in DOMAIN history[n].before :
                history[n].before[i] = history[m].now
  /\ \A inv \in pending : inv.rateLimit.called /\ inv.rateLimit.allowed

\* two invocations of one client wait for the transport, both admitted, and a
\* third request of that client, arrived meanwhile, was denied
C33_Witness ==
  /\ MaxPerWindow = 2
  /\ Cardinality(pending) = 2
  /\ \A inv \in pending : ClientIp(inv.req) = IpAa
  /\ Len(history) = 3
  /\ history[3].ip = IpAa /\ ~history[3].allowed
  /\ last # NoLast /\ last.status = 429

(***************************************************************************)
(* Properties of the window boundary, the frame and the quota.             *)
(***************************************************************************)
\* the positions of the entries found by call n that are not older than
\* now - windowDuration
NotOlder(n) ==
  {i \in DOMAIN history[n].before :
     history[n].before[i] >= history[n].now - Window}

\* C34: at a check made at time now, the entries that count toward the limit
\* are those not older than now - windowDuration, an entry of exactly
\* now - windowDuration included: the check is allowed exactly when fewer than
\* maxPerWindow such entries are found.
C34_BoundaryEntryCounts ==
  \A n \in DOMAIN history :
    history[n].allowed <=> Cardinality(NotOlder(n)) < MaxPerWindow

\* C35: a denied check leaves the whole store unchanged; an allowed check
\* changes only the entry of the hash of the checked identifier, which becomes
\* the unexpired timestamps it held, in their order, followed by now; the
\* entries of every other hash are untouched.
C35_CheckFrame ==
  [][ Len(history') = Len(history) + 1 =>
        LET c == history'[Len(history')]
            k == hashIp(c.ip)
            count == UnexpiredCount(c.before, c.now)
            dropped == Len(c.before) - count
        IN  /\ c.before = StoreGet(rateLimitStore, k)
            /\ ~c.allowed => rateLimitStore' = rateLimitStore
            /\ c.allowed =>
                  /\ DOMAIN rateLimitStore' = DOMAIN rateLimitStore \cup {k}
                  /\ \A j \in DOMAIN rateLimitStore' \ {k} :
                       rateLimitStore'[j] = rateLimitStore[j]
                  /\ Len(rateLimitStore'[k]) = count + 1
                  /\ rateLimitStore'[k][count + 1] = c.now
                  /\ \A i \in 1..count :
                       /\ rateLimitStore'[k][i] = c.before[dropped + i]
                       /\ dropped + i \in Unexpired(c.before, c.now)
    ]_vars

\* an allowed call has replaced an entry that held an expired timestamp, while
\* the store holds the entry of another hash
C35_Witness ==
  /\ \E n \in DOMAIN history :
       /\ history[n].allowed
       /\ Unexpired(history[n].before, history[n].now) # DOMAIN history[n].before
       /\ rateLimitStore[hashIp(history[n].ip)] = <<history[n].now>>
  /\ Cardinality(DOMAIN rateLimitStore) >= 2

\* the slots of the quota of the client of req that the store holds as used at
\* the time of the step
SlotsUsed(store, req) ==
  UnexpiredCount(StoreGet(store, hashIp(ClientIp(req))), clock)

\* C36: every POST from an allowed origin that passes the rate check uses
\* exactly one slot of the quota of its identifier, whatever happens to it
\* afterwards (wrong content type, missing fields, missing credential, a
\* failed delivery: no step gives a slot back); a preflight, an unsupported
\* method, a POST from a denied origin and a rate-limited POST use none.
C36_QuotaAccounting ==
  [][ IF Enters
      THEN LET inv == Entered
           IN  IF /\ inv.req.method = "POST"
                  /\ isAllowedOrigin(inv.req.origin)
                  /\ ~QuotaSpent(inv.req)
               THEN /\ inv.status \in {0, 400, 500}
                    /\ SlotsUsed(rateLimitStore', inv.req)
                         = SlotsUsed(rateLimitStore, inv.req) + 1
                    /\ \A k \in DOMAIN rateLimitStore' \ {hashIp(ClientIp(inv.req))} :
                         /\ k \in DOMAIN rateLimitStore
                         /\ rateLimitStore'[k] = rateLimitStore[k]
               ELSE /\ inv.status \in {204, 405, 403, 429}
                    /\ rateLimitStore' = rateLimitStore
      ELSE rateLimitStore' = rateLimitStore
    ]_vars

\* the delivery of an admitted submission has failed, and the timestamp of the
\* submission is still in the entry of its client
C36_Witness ==
  /\ Responded
  /\ last.status = 500
  /\ last.sends = 1
  /\ LET entries == StoreGet(rateLimitStore, hashIp(ClientIp(last.req)))
     IN  \E i \in DOMAIN entries : entries[i] = last.requestId.now

(***************************************************************************)
(* Properties of the values a check returns.                               *)
(***************************************************************************)
\* no call between calls n and m was admitted under the identifier of call n
NoneAdmittedBetween(n, m) ==
  \A j \in (n + 1)..(m - 1) :
    ~(history[j].ip = history[n].ip /\ history[j].allowed)

\* C37: after a check of an identifier is denied with resetAt = r, and with no
\* other call admitted under that identifier in between, a check of the
\* identifier at a time before r is denied and a check at r or later is
\* allowed.
C37_ResetAtExact ==
  \A n \in DOMAIN history : \A m \in DOMAIN history :
    (/\ n < m
     /\ ~history[n].allowed
     /\ IsNum(history[n].resetAt)
     /\ history[m].ip = history[n].ip
     /\ NoneAdmittedBetween(n, m)) =>
      (history[m].allowed <=> history[m].now >= Val(history[n].resetAt))

\* the number of further checks of the identifier of call n that would be
\* allowed if made right after it, at the same time: the slots that the entry
\* leaves free once the call has taken its own
FurtherAllowed(n) ==
  MaxPerWindow - (UnexpiredCount(history[n].before, history[n].now) + 1)

\* C38: the remaining value a check returns is never negative, and on an
\* allowed check it is the number of further checks of the same identifier
\* that would be allowed immediately afterwards, so that it is 0 exactly when
\* the next immediate check would be denied.
C38_RemainingCountsFurther ==
  \A n \in DOMAIN history :
    /\ history[n].remaining >= 0
    /\ history[n].allowed => history[n].remaining = FurtherAllowed(n)

(***************************************************************************)
(* Properties of the success and the server-error responses.               *)
(***************************************************************************)
\* a response with a 2xx status and success: true
IsSuccess(inv) ==
  /\ inv.status \in 200..299
  /\ "success" \in DOMAIN inv.json
  /\ inv.json.success

\* C39: a success response (2xx, success: true) is sent only by an invocation
\* that has called the mail transport exactly once and whose call has
\* returned successfully: it is sent in the step in which the awaited call
\* resolves, by the invocation that waited for it, which had sent no response
\* before.
C39_SuccessOnlyAfterDelivery ==
  [][ (last' # last /\ last' # NoLast /\ IsSuccess(last')) =>
        /\ last'.sends = 1
        /\ last'.emailResult \in EmailResults
        /\ last'.responses = 1
        /\ \E inv \in pending :
             /\ inv \notin pending'
             /\ inv.requestId = last'.requestId
             /\ inv.req = last'.req
             /\ inv.message = last'.message
             /\ inv.sends = 1
             /\ inv.responses = 0
    ]_vars

\* a submission answered with the 200 after the transport has resolved
C39_Witness ==
  /\ Responded
  /\ IsSuccess(last)
  /\ last.status = 200
  /\ last.sends = 1
  /\ last.emailResult \in EmailResults
  /\ last.logs[Len(last.logs)].event = "FORM_SUBMITTED"

\* C40: a server-error (5xx) response is produced only when the transport
\* credential is missing or the call of the mail transport has failed;
\* whatever the content of the request (an absent or null body, medications
\* that are no sequence of records, null entries, unknown fields), it ends in
\* no 5xx.
C40_ServerErrorOnlyForServerFaults ==
  (Responded /\ last.status \in 500..599) =>
    \/ ~CONFIG.RESEND_API_KEY
    \/ last.sends = 1
====
